---- MODULE Spec2Model ----
(***************************************************************************)
(* Model of the splat MCP server core: the temporary artifact store        *)
(* (tempArtifactStore.ts), the image-to-splat generation job routes        *)
(* (imageGenerationJobs.ts), the Modal inference client and the PLY        *)
(* validator.  Time is a discrete clock `now`; identifiers produced by     *)
(* randomUUID() are fresh naturals.                                        *)
(***************************************************************************)
EXTENDS Integers, Sequences, FiniteSets, TLC

\* ------------------------------------------------------------------ bounds
MaxJobs == 1
MaxUploads == 1
MaxTime == 2
MaxTtl == 2
MaxCalls == 2
MaxEdits == 2
MaxFrames == 3
MaxPlayerTime == 80
MaxParam == 2

\* ------------------------------------------------------- nullable values
\* `null` of a nullable field; a present value v is Some(v).
Null == <<>>
Some(v) == <<v>>
IsNull(o) == o = <<>>
TheValue(o) == o[1]

\* --------------------------------------------------------- map helpers
Put(f, k, v) == [x \in DOMAIN f \cup {k} |-> IF x = k THEN v ELSE f[x]]
Remove(f, k) == [x \in DOMAIN f \ {k} |-> f[x]]
EmptyMap == [x \in {} |-> 0]

\* ------------------------------------------------------------- payloads
\* A PLY header as the validator sees it: whether the bytes start with the
\* magic token, the declared format, and the property names declared under
\* the vertex element.
requiredSplatPropertyNames ==
  {"x", "y", "z", "opacity", "scale_0", "scale_1", "scale_2",
   "rot_0", "rot_1", "rot_2", "rot_3"}

PlyGood == [startsWithPly |-> TRUE, format |-> "binary_little_endian",
            vertexPropertyNames |-> requiredSplatPropertyNames, empty |-> FALSE]
PlyMissingRot == [PlyGood EXCEPT !.vertexPropertyNames = requiredSplatPropertyNames \ {"rot_3"}]
PlyAscii == [PlyGood EXCEPT !.format = "ascii"]
NotPly == [startsWithPly |-> FALSE, format |-> "", vertexPropertyNames |-> {}, empty |-> FALSE]
EmptyBytes == [startsWithPly |-> FALSE, format |-> "", vertexPropertyNames |-> {}, empty |-> TRUE]
ImageBytes == NotPly

\* A buildMissingPropertyList that reports every required name as soon as one
\* is missing.
buildMissingPropertyListAllOrNone(vertexPropertyNames, required) ==
  IF required \subseteq vertexPropertyNames THEN {} ELSE required

buildMissingPropertyList(vertexPropertyNames, required) ==
  {p \in required : p \notin vertexPropertyNames}

\* validateLikelyGaussianSplatPly: Null when the bytes are accepted, otherwise
\* the message of the Error it throws.
validateLikelyGaussianSplatPly(plyBytes) ==
  IF ~plyBytes.startsWithPly
    THEN Some(<<"Input file is not a valid PLY file. Header must start with 'ply'.">>)
  ELSE IF plyBytes.format # "binary_little_endian"
    THEN Some(<<"PLY format is not supported for splat rendering. Expected 'binary_little_endian'.">>)
  ELSE IF buildMissingPropertyList(plyBytes.vertexPropertyNames, requiredSplatPropertyNames) # {}
    THEN Some(<<"PLY file is not a Gaussian splat format supported by this viewer. Missing vertex properties: ", "names", ".">>)
  ELSE Null

\* ------------------------------------------------------ PLY header text
\* The bytes of a file as the validator reads them: the lines that
\* split("\n") gives, each with the tokens that trim() and split(/\s+/) give
\* and its length in bytes, the newline included.
HeaderLine(tokens, byteLength) == [tokens |-> tokens, byteLength |-> byteLength]

MINIMUM_HEADER_SCAN_BYTES == 64000

RequiredInOrder ==
  <<"x", "y", "z", "opacity", "scale_0", "scale_1", "scale_2",
    "rot_0", "rot_1", "rot_2", "rot_3">>

NameLength(name) ==
  IF name \in {"x", "y", "z"} THEN 1
  ELSE IF name \in {"rot_0", "rot_1", "rot_2", "rot_3"} THEN 5
  ELSE IF name = "f_dc_0" THEN 6
  ELSE 7

MagicLine == HeaderLine(<<"ply">>, 4)
FormatLine == HeaderLine(<<"format", "binary_little_endian", "1.0">>, 32)
AsciiFormatLine == HeaderLine(<<"format", "ascii", "1.0">>, 17)
VertexElementLine == HeaderLine(<<"element", "vertex", "10">>, 18)
FaceElementLine == HeaderLine(<<"element", "face", "10">>, 16)
PropertyLine(name) == HeaderLine(<<"property", "float", name>>, 17 + NameLength(name))
EndHeaderLine == HeaderLine(<<"end_header">>, 11)
\* A comment line long enough to fill the part of the file the parser decodes.
LongCommentLine == HeaderLine(<<"comment", "filler">>, MINIMUM_HEADER_SCAN_BYTES)

\* The header of a Gaussian splat file: every required property declared
\* once under the vertex element.
GoodHeader ==
  <<MagicLine, FormatLine, VertexElementLine>>
    \o [i \in 1..Len(RequiredInOrder) |-> PropertyLine(RequiredInOrder[i])]
    \o <<EndHeaderLine>>

\* Offset of the first byte of line i.
RECURSIVE StartOffset(_, _)
StartOffset(lines, i) ==
  IF i <= 1 THEN 0 ELSE StartOffset(lines, i - 1) + lines[i - 1].byteLength

\* plyBytes.slice(0, Math.min(MINIMUM_HEADER_SCAN_BYTES, byteLength)) decoded
\* and split: the lines that begin inside the slice.
ScannedLines(lines) ==
  LET visible == {i \in 1..Len(lines) : StartOffset(lines, i) < MINIMUM_HEADER_SCAN_BYTES}
  IN SubSeq(lines, 1, Cardinality(visible))

\* trimmedHeaderLine.startsWith(keyword + " ")
StartsWithKeyword(line, keyword) ==
  Len(line.tokens) >= 2 /\ line.tokens[1] = keyword

\* trimmedHeaderLine === "end_header"
IsEndHeader(line) == line.tokens = <<"end_header">>

\* A parsePlyHeader that counts the properties of every element.
RECURSIVE parseHeaderLinesAnyElement(_, _, _, _, _)
parseHeaderLinesAnyElement(headerLines, i, formatName, activeElementName, vertexPropertyNames) ==
  IF i > Len(headerLines) \/ IsEndHeader(headerLines[i])
    THEN [format |-> formatName, vertexPropertyNames |-> vertexPropertyNames]
  ELSE IF StartsWithKeyword(headerLines[i], "format")
    THEN parseHeaderLinesAnyElement(headerLines, i + 1, headerLines[i].tokens[2],
                                    activeElementName, vertexPropertyNames)
  ELSE IF StartsWithKeyword(headerLines[i], "property")
    THEN parseHeaderLinesAnyElement(
           headerLines, i + 1, formatName, activeElementName,
           vertexPropertyNames \cup {headerLines[i].tokens[Len(headerLines[i].tokens)]})
  ELSE parseHeaderLinesAnyElement(headerLines, i + 1, formatName, activeElementName,
                                  vertexPropertyNames)

\* The loop of parsePlyHeader from line i on (lines 25-53), with its three
\* locals.
RECURSIVE parseHeaderLines(_, _, _, _, _)
parseHeaderLines(headerLines, i, formatName, activeElementName, vertexPropertyNames) ==
  IF i > Len(headerLines) \/ IsEndHeader(headerLines[i])
    THEN [format |-> formatName, vertexPropertyNames |-> vertexPropertyNames]
  ELSE IF StartsWithKeyword(headerLines[i], "format")
    THEN parseHeaderLines(headerLines, i + 1, headerLines[i].tokens[2],
                          activeElementName, vertexPropertyNames)
  ELSE IF StartsWithKeyword(headerLines[i], "element")
    THEN parseHeaderLines(headerLines, i + 1, formatName,
                          headerLines[i].tokens[2], vertexPropertyNames)
  ELSE IF StartsWithKeyword(headerLines[i], "property") /\ activeElementName = "vertex"
    THEN parseHeaderLines(
           headerLines, i + 1, formatName, activeElementName,
           vertexPropertyNames \cup {headerLines[i].tokens[Len(headerLines[i].tokens)]})
  ELSE parseHeaderLines(headerLines, i + 1, formatName, activeElementName,
                        vertexPropertyNames)

\* parsePlyHeader: the declared format and the property names of the vertex
\* element, from the part of the file it decodes.
parsePlyHeader(lines) == parseHeaderLines(ScannedLines(lines), 1, "", "", {})

\* headerPreviewText.startsWith("ply") on the first 16 bytes.
StartsWithPly(lines) ==
  /\ Len(lines) > 0
  /\ Len(lines[1].tokens) > 0
  /\ lines[1].tokens[1] = "ply"

\* The file as validateLikelyGaussianSplatPly sees it.
DecodePly(lines) ==
  [startsWithPly |-> StartsWithPly(lines),
   format |-> parsePlyHeader(lines).format,
   vertexPropertyNames |-> parsePlyHeader(lines).vertexPropertyNames,
   empty |-> lines = <<>>]

\* What validateLikelyGaussianSplatPly does with a file: the Error it
\* throws, if any, and the names its message lists as missing.
ValidationOutcome(lines) ==
  LET plyBytes == DecodePly(lines)
  IN [validated |-> TRUE,
      error |-> validateLikelyGaussianSplatPly(plyBytes),
      missing |-> IF plyBytes.startsWithPly /\ plyBytes.format = "binary_little_endian"
                    THEN buildMissingPropertyList(plyBytes.vertexPropertyNames,
                                                  requiredSplatPropertyNames)
                    ELSE {}]

NotValidated == [validated |-> FALSE, error |-> Null, missing |-> {}]

\* assertLooksLikePlyPayload of the Modal client: Null or the Error message.
assertLooksLikePlyPayload(decodedPlyBytes) ==
  IF decodedPlyBytes.empty
    THEN Some(<<"Modal endpoint returned an empty PLY payload for ", "outputFilename", ".">>)
  ELSE IF ~decodedPlyBytes.startsWithPly
    THEN Some(<<"Modal endpoint returned non-PLY bytes for ", "outputFilename", ". Header preview: ", "preview", ".">>)
  ELSE Null

\* ------------------------------------------------------- artifact store
\* The store is the in-memory registry plus the artifact directory: the
\* backing files and the .meta.json sidecars, each keyed by artifact id
\* (the file path of an artifact is derived from its id alone).
MimeTypes == {"image/jpeg", "application/octet-stream"}
\* mimeType.toLowerCase().startsWith("image/")
IsImageMimeType(mimeType) == mimeType \in {"image/jpeg"}

\* JSON.stringify(storedArtifact) written as the sidecar text.
writeArtifactMetadataToDisk(storedArtifact) ==
  [artifactId |-> storedArtifact.artifactId,
   absoluteFilePath |-> storedArtifact.absoluteFilePath,
   expiresAtUnixMs |-> storedArtifact.expiresAtUnixMs,
   mimeType |-> storedArtifact.mimeType,
   fileSizeBytes |-> storedArtifact.fileSizeBytes,
   displayName |-> storedArtifact.displayName]

\* The typeof checks of readArtifactMetadataFromDisk on the parsed sidecar:
\* each of the five fields it reads is present with its type.
IsWellFormedMetadata(parsedMetadataValue) ==
  {"absoluteFilePath", "expiresAtUnixMs", "mimeType", "fileSizeBytes", "displayName"}
    \subseteq DOMAIN parsedMetadataValue

\* A readArtifactMetadataFromDisk that does not carry displayName over.
readArtifactMetadataFromDiskLosesName(s, artifactIdentifier) ==
  IF artifactIdentifier \notin DOMAIN s.meta THEN Null
  ELSE IF ~IsWellFormedMetadata(s.meta[artifactIdentifier]) THEN Null
  ELSE Some([artifactId |-> artifactIdentifier,
             absoluteFilePath |-> s.meta[artifactIdentifier].absoluteFilePath,
             expiresAtUnixMs |-> s.meta[artifactIdentifier].expiresAtUnixMs,
             mimeType |-> s.meta[artifactIdentifier].mimeType,
             fileSizeBytes |-> s.meta[artifactIdentifier].fileSizeBytes,
             displayName |-> ""])

\* readArtifactMetadataFromDisk: Null when there is no sidecar or it lacks a
\* field, else the record rebuilt from the parsed fields and the identifier
\* asked for.
readArtifactMetadataFromDisk(s, artifactIdentifier) ==
  IF artifactIdentifier \notin DOMAIN s.meta THEN Null
  ELSE IF ~IsWellFormedMetadata(s.meta[artifactIdentifier]) THEN Null
  ELSE Some([artifactId |-> artifactIdentifier,
             absoluteFilePath |-> s.meta[artifactIdentifier].absoluteFilePath,
             expiresAtUnixMs |-> s.meta[artifactIdentifier].expiresAtUnixMs,
             mimeType |-> s.meta[artifactIdentifier].mimeType,
             fileSizeBytes |-> s.meta[artifactIdentifier].fileSizeBytes,
             displayName |-> s.meta[artifactIdentifier].displayName])

\* deleteArtifact: the store after the call.
deleteArtifact(s, artifactIdentifier) ==
  LET storedArtifact ==
        IF artifactIdentifier \in DOMAIN s.registry
          THEN Some(s.registry[artifactIdentifier])
          ELSE readArtifactMetadataFromDisk(s, artifactIdentifier)
  IN [registry |-> Remove(s.registry, artifactIdentifier),
      files |-> IF IsNull(storedArtifact) THEN s.files
                ELSE Remove(s.files, TheValue(storedArtifact).absoluteFilePath),
      meta |-> Remove(s.meta, artifactIdentifier)]

\* getArtifactIfAvailable at time t: the store after the call and the
\* artifact returned (Null for not-found).
getArtifactIfAvailable(s, artifactIdentifier, t) ==
  LET found == IF artifactIdentifier \in DOMAIN s.registry
                 THEN Some(s.registry[artifactIdentifier])
                 ELSE readArtifactMetadataFromDisk(s, artifactIdentifier)
  IN IF IsNull(found) THEN [store |-> s, result |-> Null]
     ELSE LET storedArtifact == TheValue(found)
              s1 == [s EXCEPT !.registry = Put(s.registry, artifactIdentifier, storedArtifact)]
          IN IF storedArtifact.expiresAtUnixMs <= t
               THEN [store |-> deleteArtifact(s1, storedArtifact.artifactId), result |-> Null]
             ELSE IF storedArtifact.absoluteFilePath \in DOMAIN s1.files
               THEN [store |-> s1, result |-> Some(storedArtifact)]
             ELSE [store |-> [s1 EXCEPT !.registry = Remove(s1.registry, storedArtifact.artifactId)],
                   result |-> Null]

\* readArtifactBytes at time t: the store after the call and the bytes
\* returned (Null for not-found).
readArtifactBytes(s, artifactIdentifier, t) ==
  LET got == getArtifactIfAvailable(s, artifactIdentifier, t)
  IN IF IsNull(got.result) THEN [store |-> got.store, result |-> Null]
     ELSE [store |-> got.store,
           result |-> Some(got.store.files[TheValue(got.result).absoluteFilePath])]

\* createArtifactFromBytes with a fresh identifier at time t.  `outcome`
\* is what the file system does: "ok", "writeFileFails" (the bytes cannot be
\* written) or "metadataWriteFails" (the sidecar cannot be written after the
\* bytes and the registry entry are in place).
CreateOutcomes == {"ok", "writeFileFails", "metadataWriteFails"}
\* artifactBytes.byteLength, up to the distinctions the payloads make
byteLength(artifactBytes) ==
  IF artifactBytes.empty THEN 0 ELSE IF artifactBytes.startsWithPly THEN 2 ELSE 1
createArtifactFromBytes(s, artifactIdentifier, artifactBytes, mimeType, displayName, ttl, t, outcome) ==
  LET storedArtifact == [artifactId |-> artifactIdentifier,
                         absoluteFilePath |-> artifactIdentifier,
                         expiresAtUnixMs |-> t + ttl,
                         mimeType |-> mimeType,
                         fileSizeBytes |-> byteLength(artifactBytes),
                         displayName |-> displayName]
      s1 == [s EXCEPT !.files = Put(s.files, artifactIdentifier, artifactBytes)]
      s2 == [s1 EXCEPT !.registry = Put(s1.registry, artifactIdentifier, storedArtifact)]
      s3 == [s2 EXCEPT !.meta = Put(s2.meta, artifactIdentifier,
                                    writeArtifactMetadataToDisk(storedArtifact))]
  IN CASE outcome = "writeFileFails" ->
            [store |-> s, result |-> Null, error |-> Some(<<"EIO: write failed">>)]
       [] outcome = "metadataWriteFails" ->
            [store |-> s2, result |-> Null, error |-> Some(<<"EIO: write failed">>)]
       [] OTHER ->
            [store |-> s3, result |-> Some(storedArtifact), error |-> Null]

\* deleteExpiredArtifacts at time t: the store after the sweep.
RECURSIVE deleteAll(_, _)
deleteAll(s, artifactIdentifiersToDelete) ==
  IF artifactIdentifiersToDelete = {} THEN s
  ELSE LET artifactIdentifier == CHOOSE i \in artifactIdentifiersToDelete : TRUE
       IN deleteAll(deleteArtifact(s, artifactIdentifier),
                    artifactIdentifiersToDelete \ {artifactIdentifier})

\* A sweep that forgets the expiry test and deletes every tracked artifact.
deleteExpiredArtifactsDeletesAll(s, t) ==
  deleteAll(s, DOMAIN s.registry \cup DOMAIN s.meta)

deleteExpiredArtifacts(s, t) ==
  LET fromRegistry == {i \in DOMAIN s.registry : s.registry[i].expiresAtUnixMs <= t}
      fromDisk == {i \in DOMAIN s.meta \ fromRegistry :
                     TheValue(readArtifactMetadataFromDisk(s, i)).expiresAtUnixMs <= t}
  IN deleteAll(s, fromRegistry \cup fromDisk)

\* buildPublicArtifactUrl / resolvePublicUrlForPath: new URL(path, base)
\* throws a TypeError when the configured base is not a valid URL.
PublicBaseUrls == {"unset", "valid", "invalid"}
resolvePublicUrlForPath(base, relativePath) ==
  CASE base = "unset" -> Some(<<relativePath>>)
    [] base = "valid" -> Some(<<"https://host", relativePath>>)
    [] OTHER -> Null

\* ------------------------------------------- Modal client configuration
\* An environment variable is undefined (Null) or a string, written as the
\* sequence of its characters.  A number with a fraction is the pair of a
\* numerator and a power-of-ten denominator.
DEFAULT_MODAL_INFERENCE_TIMEOUT_MILLISECONDS == 300000

DigitChars == <<"0", "1", "2", "3", "4", "5", "6", "7", "8", "9">>
IsDigit(ch) == \E i \in 1..10 : DigitChars[i] = ch
DigitValue(ch) == (CHOOSE i \in 1..10 : DigitChars[i] = ch) - 1
NaN == Null
Number(numerator, denominator) == [num |-> numerator, den |-> denominator]

\* The longest run of decimal digits of str from position i: its value, how
\* many digits it has and the position after it.
RECURSIVE ScanDigits(_, _, _, _)
ScanDigits(str, i, value, count) ==
  IF i <= Len(str) /\ IsDigit(str[i])
    THEN ScanDigits(str, i + 1, value * 10 + DigitValue(str[i]), count + 1)
    ELSE [value |-> value, count |-> count, next |-> i]

RECURSIVE PowerOfTen(_)
PowerOfTen(n) == IF n = 0 THEN 1 ELSE 10 * PowerOfTen(n - 1)

SignOf(str) == IF Len(str) > 0 /\ str[1] = "-" THEN -1 ELSE 1
AfterSign(str) == IF Len(str) > 0 /\ str[1] \in {"-", "+"} THEN 2 ELSE 1

\* Number.parseInt(str, 10): an optional sign and the digits that follow;
\* whatever comes after the digits is ignored, NaN without a digit.
parseInt(str) ==
  LET digits == ScanDigits(str, AfterSign(str), 0, 0)
  IN IF digits.count = 0 THEN NaN ELSE Some(Number(SignOf(str) * digits.value, 1))

\* Number.parseFloat(str): an optional sign, digits, and an optional point
\* followed by digits; NaN without a digit on either side of the point.
parseFloat(str) ==
  LET whole == ScanDigits(str, AfterSign(str), 0, 0)
      hasPoint == whole.next <= Len(str) /\ str[whole.next] = "."
      fraction == IF hasPoint THEN ScanDigits(str, whole.next + 1, 0, 0)
                  ELSE [value |-> 0, count |-> 0, next |-> whole.next]
  IN IF whole.count + fraction.count = 0 THEN NaN
     ELSE Some(Number(SignOf(str) * (whole.value * PowerOfTen(fraction.count) + fraction.value),
                      PowerOfTen(fraction.count)))

\* environmentVariableValue ?? ""
OrEmpty(environmentVariableValue) ==
  IF IsNull(environmentVariableValue) THEN <<>> ELSE TheValue(environmentVariableValue)

parsePositiveIntegerEnvironmentValue(environmentVariableValue, fallbackValue) ==
  LET parsedValue == parseInt(OrEmpty(environmentVariableValue))
  IN IF IsNull(parsedValue) \/ TheValue(parsedValue).num <= 0 THEN fallbackValue
     ELSE TheValue(parsedValue)

parsePositiveFloatEnvironmentValue(environmentVariableValue, fallbackValue) ==
  LET parsedValue == parseFloat(OrEmpty(environmentVariableValue))
  IN IF IsNull(parsedValue) \/ TheValue(parsedValue).num <= 0 THEN fallbackValue
     ELSE TheValue(parsedValue)

\* Math.round of a non-negative fraction: halves go up.
MathRound(numerator, denominator) == (2 * numerator + denominator) \div (2 * denominator)

resolveTimeoutMilliseconds(env) ==
  LET timeoutMillisecondsOverride ==
        parsePositiveIntegerEnvironmentValue(env.SHARP_MODAL_TIMEOUT_MS, Number(-1, 1))
      timeoutSecondsValue ==
        parsePositiveFloatEnvironmentValue(
          env.SHARP_MODAL_TIMEOUT_SECONDS,
          Number(DEFAULT_MODAL_INFERENCE_TIMEOUT_MILLISECONDS \div 1000, 1))
  IN IF timeoutMillisecondsOverride.num > 0 THEN timeoutMillisecondsOverride.num
     ELSE MathRound(timeoutSecondsValue.num * 1000, timeoutSecondsValue.den)

\* Values the two timeout settings are given.
TimeoutSettings ==
  {Null, Some(<<>>), Some(<<"x">>), Some(<<"0">>), Some(<<"-", "5">>), Some(<<"7">>),
   Some(<<"1", "5", "0", "0">>), Some(<<"2", "0", "x">>), Some(<<"1", ".", "4">>),
   Some(<<"0", ".", "4">>), Some(<<".", "0", "0", "0", "4">>), Some(<<"0", ".", "0", "0", "1">>),
   Some(<<"-", "0", ".", "4">>), Some(<<"4", ".">>), Some(<<".">>)}

NoEnvironment ==
  [SHARP_MODAL_TIMEOUT_MS |-> Null, SHARP_MODAL_TIMEOUT_SECONDS |-> Null]

\* ----------------------------------------------------- upload route
DEFAULT_MAXIMUM_UPLOAD_PLY_BYTES == 209715200
DEFAULT_MAXIMUM_UPLOAD_IMAGE_BYTES == 20971520
SUPPORTED_IMAGE_FILE_EXTENSIONS == {".jpg", ".png"}

\* uploadedFilename.slice(lastDotIndex).toLowerCase(), on the extensions the
\* uploaded names end with ("" for a name without a dot)
extractLowerCaseFileExtension(nameExtension) ==
  CASE nameExtension = ".PLY" -> ".ply"
    [] nameExtension = ".PNG" -> ".png"
    [] OTHER -> nameExtension

inferImageFileExtensionFromMimeType(uploadedMimeType) ==
  IF uploadedMimeType = "image/jpeg" THEN Some(".jpg") ELSE Null

\* parseMaximumUploadPlyBytes / parseMaximumUploadImageBytes
parseMaximumUploadBytes(setting, default) ==
  parsePositiveIntegerEnvironmentValue(setting, Number(default, 1)).num

\* classifyUploadedAsset: Null when it throws "Unsupported upload type".
classifyUploadedAsset(uploadedFile) ==
  LET extractedFileExtension == extractLowerCaseFileExtension(uploadedFile.nameExtension)
  IN IF extractedFileExtension = ".ply"
       THEN Some([uploadedAssetType |-> "ply", fileExtension |-> ".ply"])
     ELSE IF IsImageMimeType(uploadedFile.type)
             \/ extractedFileExtension \in SUPPORTED_IMAGE_FILE_EXTENSIONS
       THEN Some([uploadedAssetType |-> "image",
                  fileExtension |->
                    IF extractedFileExtension # "" THEN extractedFileExtension
                    ELSE IF ~IsNull(inferImageFileExtensionFromMimeType(uploadedFile.type))
                      THEN TheValue(inferImageFileExtensionFromMimeType(uploadedFile.type))
                    ELSE ".jpg"])
     ELSE Null

resolveStoredMimeType(uploadedFile, uploadedAssetType) ==
  IF uploadedFile.type # "" THEN uploadedFile.type
  ELSE IF uploadedAssetType = "image" THEN "image/jpeg"
  ELSE "application/octet-stream"

Rejected(statusCode) == [status |-> statusCode, create |-> Null]

\* An upload handler that validates what the browser labels as a point
\* cloud, not what the file name classifies as one.
handleUploadRequestValidatesByType(request) ==
  LET file == request.file
      classification == classifyUploadedAsset(file)
      uploadedAssetType == TheValue(classification).uploadedAssetType
      maximumUploadBytes ==
        IF uploadedAssetType = "ply"
          THEN parseMaximumUploadBytes(request.SPLAT_MAX_PLY_BYTES,
                                       DEFAULT_MAXIMUM_UPLOAD_PLY_BYTES)
          ELSE parseMaximumUploadBytes(request.SPLAT_MAX_IMAGE_BYTES,
                                       DEFAULT_MAXIMUM_UPLOAD_IMAGE_BYTES)
  IN IF ~file.present THEN Rejected(400)
     ELSE IF file.size <= 0 THEN Rejected(400)
     ELSE IF IsNull(classification) THEN Rejected(400)
     ELSE IF file.size > maximumUploadBytes THEN Rejected(413)
     ELSE IF file.type = "application/octet-stream"
             /\ ~IsNull(validateLikelyGaussianSplatPly(file.bytes))
       THEN Rejected(400)
     ELSE [status |-> 200,
           create |-> Some([bytes |-> file.bytes,
                            fileExtension |-> TheValue(classification).fileExtension,
                            mimeType |-> resolveStoredMimeType(file, uploadedAssetType),
                            displayName |-> IF uploadedAssetType = "ply" THEN "uploaded.ply"
                                            ELSE "uploaded-image.jpg"])]

\* handleUploadRequest up to its call of createArtifactFromBytes: the status
\* it answers with when it rejects the upload, or the arguments of the call.
handleUploadRequest(request) ==
  LET file == request.file
      classification == classifyUploadedAsset(file)
      uploadedAssetType == TheValue(classification).uploadedAssetType
      maximumUploadBytes ==
        IF uploadedAssetType = "ply"
          THEN parseMaximumUploadBytes(request.SPLAT_MAX_PLY_BYTES,
                                       DEFAULT_MAXIMUM_UPLOAD_PLY_BYTES)
          ELSE parseMaximumUploadBytes(request.SPLAT_MAX_IMAGE_BYTES,
                                       DEFAULT_MAXIMUM_UPLOAD_IMAGE_BYTES)
  IN IF ~file.present THEN Rejected(400)
     ELSE IF file.size <= 0 THEN Rejected(400)
     ELSE IF IsNull(classification) THEN Rejected(400)
     ELSE IF file.size > maximumUploadBytes THEN Rejected(413)
     ELSE IF uploadedAssetType = "ply" /\ ~IsNull(validateLikelyGaussianSplatPly(file.bytes))
       THEN Rejected(400)
     ELSE [status |-> 200,
           create |-> Some([bytes |-> file.bytes,
                            fileExtension |-> TheValue(classification).fileExtension,
                            mimeType |-> resolveStoredMimeType(file, uploadedAssetType),
                            displayName |-> IF uploadedAssetType = "ply" THEN "uploaded.ply"
                                            ELSE "uploaded-image.jpg"])]

\* The files posted to /uploads/asset: the extension of the name, the type
\* the browser gave, the size and the content.
UploadedContents ==
  {<<0, EmptyBytes>>, <<1000, PlyGood>>, <<1000, PlyMissingRot>>, <<1000, NotPly>>,
   <<20971521, PlyGood>>, <<20971521, NotPly>>, <<209715201, PlyGood>>}
UploadedFiles ==
  {[present |-> TRUE, nameExtension |-> e, type |-> t, size |-> c[1], bytes |-> c[2]] :
     e \in {".ply", ".PLY", ".png", ""},
     t \in {"", "image/jpeg", "application/octet-stream"},
     c \in UploadedContents}
  \cup {[present |-> FALSE, nameExtension |-> "", type |-> "", size |-> 0, bytes |-> EmptyBytes]}
UploadLimitSettings == {Null, Some(<<"5", "0", "0">>)}
UploadRequests ==
  [file : UploadedFiles, SPLAT_MAX_PLY_BYTES : UploadLimitSettings,
   SPLAT_MAX_IMAGE_BYTES : UploadLimitSettings]
NoUpload == [request |-> Null, status |-> 0, artifactId |-> Null]

\* resolvePlyInputBytes: the bytes it returns, Null when the download or the
\* validation throws.
PlyDownloads ==
  {[ok |-> FALSE, bytes |-> EmptyBytes]}
  \cup {[ok |-> TRUE, bytes |-> b] : b \in {PlyGood, PlyMissingRot, PlyAscii, NotPly, EmptyBytes}}
resolvePlyInputBytes(download) ==
  IF ~download.ok THEN Null
  ELSE IF ~IsNull(validateLikelyGaussianSplatPly(download.bytes)) THEN Null
  ELSE Some(download.bytes)

\* ------------------------------------------- the upload widget's polling
maximumPollingAttempts == 360

\* What one GET of the status endpoint gives the widget: the fetch rejects,
\* or a response arrives that is ok or not, with a body that is not JSON
\* (Null) or an object with a status and possibly an errorMessage.
PollAnswers ==
  {[settled |-> "rejected", ok |-> FALSE, body |-> Null]}
  \cup {[settled |-> "response", ok |-> TRUE, body |-> Null]}
  \cup {[settled |-> "response", ok |-> TRUE, body |-> Some([status |-> st, errorMessage |-> Null])] :
          st \in {"queued", "running", "succeeded", "failed", "cancelled"}}
  \cup {[settled |-> "response", ok |-> TRUE,
         body |-> Some([status |-> "failed", errorMessage |-> Some("fetch failed")])]}
  \cup {[settled |-> "response", ok |-> FALSE, body |-> b] :
          b \in {Null, Some([status |-> "none", errorMessage |-> Some("Image generation job was not found.")]),
                 Some([status |-> "none", errorMessage |-> Null])}}

\* imageGenerationJobStatusResponseSchema.safeParse(body).success
ParsesAsJobStatus(body) ==
  ~IsNull(body) /\ TheValue(body).status \in {"queued", "running", "succeeded", "failed"}

Polling == [kind |-> "polling", message |-> Null]

\* A loop body that takes a failed job for one still in progress.
handlePollAnswerIgnoresFailed(answer) ==
  IF answer.settled = "rejected" THEN [kind |-> "threw", message |-> Some("fetch failed")]
  ELSE IF ~answer.ok
    THEN [kind |-> "threw",
          message |-> IF ~IsNull(answer.body) /\ ~IsNull(TheValue(answer.body).errorMessage)
                        THEN TheValue(answer.body).errorMessage
                        ELSE Some("Failed to poll generation job: HTTP status.")]
  ELSE IF ~ParsesAsJobStatus(answer.body)
    THEN [kind |-> "threw", message |-> Some("Image generation job status response was invalid.")]
  ELSE IF TheValue(answer.body).status = "succeeded"
    THEN [kind |-> "returned", message |-> Null]
  ELSE Polling

\* One pass of the loop body from the fetch to the status tests: how the
\* call settles on this answer, or Polling when it goes on to the delay.
handlePollAnswer(answer) ==
  IF answer.settled = "rejected" THEN [kind |-> "threw", message |-> Some("fetch failed")]
  ELSE IF ~answer.ok
    THEN [kind |-> "threw",
          message |-> IF ~IsNull(answer.body) /\ ~IsNull(TheValue(answer.body).errorMessage)
                        THEN TheValue(answer.body).errorMessage
                        ELSE Some("Failed to poll generation job: HTTP status.")]
  ELSE IF ~ParsesAsJobStatus(answer.body)
    THEN [kind |-> "threw", message |-> Some("Image generation job status response was invalid.")]
  ELSE IF TheValue(answer.body).status = "succeeded"
    THEN [kind |-> "returned", message |-> Null]
  ELSE IF TheValue(answer.body).status = "failed"
    THEN [kind |-> "threw",
          message |-> IF ~IsNull(TheValue(answer.body).errorMessage)
                        THEN TheValue(answer.body).errorMessage
                        ELSE Some("Image generation job failed without an error message.")]
  ELSE Polling

\* ------------------------------------------- Modal client: endpoint URL
\* Values SHARP_MODAL_ENDPOINT_URL is given.
EndpointUrlSettings ==
  {Null, Some(""), Some("   "), Some("modal-endpoint"),
   Some("https://example.modal.run/generate")}

\* String.prototype.trim, on those values
Trim(str) == IF str = "   " THEN "" ELSE str

\* new URL(str) does not throw
ParsesAsUrl(str) == str = "https://example.modal.run/generate"

\* resolveModalEndpointUrlFromEnvironment: the URL, Null when it throws.
resolveModalEndpointUrlFromEnvironment(setting) ==
  LET modalEndpointUrlFromEnvironment == IF IsNull(setting) THEN "" ELSE Trim(TheValue(setting))
  IN IF modalEndpointUrlFromEnvironment = "" THEN Null
     ELSE IF ~ParsesAsUrl(modalEndpointUrlFromEnvironment) THEN Null
     ELSE Some(modalEndpointUrlFromEnvironment)

NoModalCall == [n |-> 0, pc |-> "idle", aborted |-> FALSE, threw |-> FALSE]

\* ------------------------------------------------- trajectory player
\* A TrajectoryPlayer: the length of its positions array, currentFrame,
\* state and lastFrameTime.  Each method gives the player after the call and
\* the states it passed to onStateChange, in order.
PlayerFps == 30
NewPlayer == [positions |-> 0, currentFrame |-> 0, state |-> "stopped", lastFrameTime |-> 0]
Called(p, notified) == [player |-> p, notified |-> notified]

setTrajectory(p, positionsLength) ==
  Called([p EXCEPT !.positions = positionsLength, !.currentFrame = 0, !.state = "stopped"],
         <<"stopped">>)

play(p, performanceNow) ==
  IF p.positions = 0 THEN Called(p, <<>>)
  ELSE Called([p EXCEPT !.state = "playing", !.lastFrameTime = performanceNow], <<"playing">>)

pause(p) ==
  IF p.state # "playing" THEN Called(p, <<>>)
  ELSE Called([p EXCEPT !.state = "paused"], <<"paused">>)

stop(p) == Called([p EXCEPT !.state = "stopped", !.currentFrame = 0], <<"stopped">>)

reset(p, performanceNow) ==
  Called([p EXCEPT !.currentFrame = 0,
                   !.lastFrameTime = IF p.state = "playing" THEN performanceNow ELSE @],
         <<>>)

\* elapsed >= this.frameInterval, with frameInterval = 1000 / fps
FrameIntervalElapsed(elapsed) == elapsed * PlayerFps >= 1000

\* An update that stays on the frame past the end instead of wrapping.
updateWithoutWrap(p, currentTime) ==
  IF p.state # "playing" \/ p.positions = 0 THEN Called(p, <<>>)
  ELSE IF FrameIntervalElapsed(currentTime - p.lastFrameTime)
    THEN Called([p EXCEPT !.currentFrame = @ + 1, !.lastFrameTime = currentTime], <<>>)
  ELSE Called(p, <<>>)

update(p, currentTime) ==
  IF p.state # "playing" \/ p.positions = 0 THEN Called(p, <<>>)
  ELSE IF FrameIntervalElapsed(currentTime - p.lastFrameTime)
    THEN IF p.currentFrame + 1 >= p.positions
           THEN Called([p EXCEPT !.currentFrame = 0, !.lastFrameTime = currentTime,
                                 !.state = "stopped"],
                       <<"stopped">>)
           ELSE Called([p EXCEPT !.currentFrame = @ + 1, !.lastFrameTime = currentTime], <<>>)
  ELSE Called(p, <<>>)

setFrame(p, frame) ==
  IF frame >= 0 /\ frame < p.positions THEN Called([p EXCEPT !.currentFrame = frame], <<>>)
  ELSE Called(p, <<>>)

\* ---------------------------------------------------- Gaussian viewer
DEFAULT_NUM_STEPS == 60
DEFAULT_NUM_REPEATS == 1
TrajectoryTypes == {"rotate_forward", "swipe"}

\* createEyeTrajectory(...).length: every generator pushes numSteps
\* positions numRepeats times, or numSteps * numRepeats positions, and none
\* when either is not positive.
createEyeTrajectoryLength(type, numSteps, numRepeats) ==
  IF numSteps <= 0 \/ numRepeats <= 0 THEN 0 ELSE numSteps * numRepeats

NewViewer ==
  [splatMesh |-> FALSE, load |-> "none", type |-> "rotate_forward",
   numSteps |-> DEFAULT_NUM_STEPS, numRepeats |-> DEFAULT_NUM_REPEATS,
   controlsEnabled |-> TRUE]

\* trajectoryPlayer.onStateChange of the viewer, applied to the states a
\* call of the player notified.
RECURSIVE onStateChange(_, _)
onStateChange(v, notified) ==
  IF notified = <<>> THEN v
  ELSE onStateChange(IF Head(notified) # "playing" THEN [v EXCEPT !.controlsEnabled = TRUE] ELSE v,
                     Tail(notified))

\* ------------------------------------------------------------ job index
VARIABLES
  now,                      \* Date.now()
  artifactTtl,              \* artifactTimeToLiveMilliseconds, set by the constructor
  artifactRegistryById,     \* in-memory registry of the store
  artifactFiles,            \* backing files in the artifact directory
  artifactSidecars,         \* .meta.json files in the artifact directory
  nextArtifactId,           \* next randomUUID() of the store
  uploads,                  \* number of createArtifactFromBytes calls by callers
  imageGenerationJobsById,  \* the job index
  nextJobId,                \* next randomUUID() of the job routes
  run,                      \* position and locals of each runImageGenerationJob
  statusHistory,            \* every status written into the index, per job
  backendCalls,             \* fetches issued to the Modal endpoint, per job
  backendAnswer,            \* what the endpoint answered to the fetch, per job
  runsLaunched,             \* runImageGenerationJob invocations, per job
  runCause,                 \* how each finished run ended
  outputsOf,                \* artifact ids whose bytes a run wrote, per job
  startResponse,            \* body of the 202 response of start, per job
  lastStart,                \* outcome of the latest POST /jobs/image-to-splat
  lastGet,                  \* outcome of the latest GET /jobs/image-to-splat/:jobId
  sweptJobs,                \* jobs removed by cleanupExpiredImageGenerationJobs
  removedOutOfBand,         \* artifact files deleted behind the store's back
  backendPayload,           \* payload of the 2xx answer the endpoint gave, per job
  lateAnswer,               \* answers that arrived for a request already aborted, per job
  storeCalls,               \* store operations in flight, each at one of its awaits
  booted,                   \* initialize() has returned: routes and cleanup timer are up
  cleanupTimer,             \* setInterval calls of this process's store; 0 is cleanupTimer === null
  lastReturn,               \* what the latest step of a store operation returned, if it settled one
  storeLog,                 \* what store operations have returned so far
  plyHeader,                \* the lines of the bytes handed to the validator
  plyOutcome,               \* what validateLikelyGaussianSplatPly did with plyHeader
  plyEdits,                 \* lines inserted into or removed from plyHeader so far
  environment,              \* process.env when the server process started
  timeoutMilliseconds,      \* ModalInferenceClient.timeoutMilliseconds
  createdWithExtension,     \* fileExtension each caller gave createArtifactFromBytes, per artifact
  lastUpload,               \* the POST /uploads/asset handled, and its answer
  pollState,                \* where waitForImageGenerationJobCompletion is
  pollingAttemptIndex,      \* its loop variable
  pollsIssued,              \* fetches of the status endpoint it has made
  lastPollAnswer,           \* what the latest of them gave
  pollOutcome,              \* how the call settled, Polling until then
  modalEndpointUrlSetting,  \* process.env.SHARP_MODAL_ENDPOINT_URL
  modalCall,                \* the latest generateSplatFromImage call of the client
  pendingTimers,            \* calls whose timeout timer is armed: not fired, not cleared
  player,                   \* the TrajectoryPlayer of the viewer
  viewer,                   \* the GaussianViewer: splat mesh, load, trajectory params, controls
  playerClock,              \* performance.now()
  lastPlayerCall            \* the method of the player called last

vars == <<now, artifactTtl,
          artifactRegistryById, artifactFiles, artifactSidecars, nextArtifactId,
          uploads, imageGenerationJobsById, nextJobId, run, statusHistory,
          backendCalls, backendAnswer, runsLaunched, runCause, outputsOf, startResponse,
          lastStart, lastGet, sweptJobs, removedOutOfBand,
          backendPayload, lateAnswer, storeCalls, booted, cleanupTimer, lastReturn, storeLog,
          plyHeader, plyOutcome, plyEdits,
          environment, timeoutMilliseconds, createdWithExtension, lastUpload,
          pollState, pollingAttemptIndex, pollsIssued, lastPollAnswer, pollOutcome,
          modalEndpointUrlSetting, modalCall, pendingTimers,
          player, viewer, playerClock, lastPlayerCall>>

configVars == <<artifactTtl>>
clientVars == <<backendPayload, lateAnswer>>
plyVars == <<plyHeader, plyOutcome, plyEdits>>
timeoutVars == <<environment, timeoutMilliseconds>>
ingestVars == <<createdWithExtension, lastUpload>>
pollVars == <<pollState, pollingAttemptIndex, pollsIssued, lastPollAnswer, pollOutcome>>
timerVars == <<modalEndpointUrlSetting, modalCall, pendingTimers>>
playerVars == <<player, viewer, playerClock, lastPlayerCall>>
peripheralVars == <<pollVars, timerVars, playerVars>>
sideVars == <<timeoutVars, ingestVars, peripheralVars>>
callVars == <<storeCalls, booted, cleanupTimer, lastReturn, storeLog>>
storeVars == <<artifactRegistryById, artifactFiles, artifactSidecars>>

JobIds == 1..MaxJobs
TerminalStatuses == {"succeeded", "failed"}

Store == [registry |-> artifactRegistryById, files |-> artifactFiles,
          meta |-> artifactSidecars]

SetStore(s) ==
  /\ artifactRegistryById' = s.registry
  /\ artifactFiles' = s.files
  /\ artifactSidecars' = s.meta

\* cleanupExpiredImageGenerationJobs at time t
cleanupExpiredImageGenerationJobs(jobs, t) ==
  [j \in {k \in DOMAIN jobs : ~(jobs[k].expiresAtUnixMs <= t)} |-> jobs[j]]

\* An updateJobStatus that inserts the update when the job is not in the
\* index (an upsert).
updateJobStatusUpserts(jobs, jobId, partialJobUpdate, t) ==
  LET existingJobRecord ==
        IF jobId \in DOMAIN jobs THEN jobs[jobId]
        ELSE [jobId |-> jobId, status |-> "queued", createdAtUnixMs |-> t,
              updatedAtUnixMs |-> t, expiresAtUnixMs |-> t + 1, imageArtifactId |-> 1,
              errorMessage |-> Null, outputArtifactId |-> Null, outputArtifactUrl |-> Null]
  IN Put(jobs, jobId,
         [f \in DOMAIN existingJobRecord |->
            IF f = "updatedAtUnixMs" THEN t
            ELSE IF f \in DOMAIN partialJobUpdate THEN partialJobUpdate[f]
            ELSE existingJobRecord[f]])

\* An updateJobStatus that loses the outputArtifactId of the update.
updateJobStatusDropsOutput(jobs, jobId, partialJobUpdate, t) ==
  IF jobId \notin DOMAIN jobs THEN jobs
  ELSE [jobs EXCEPT ![jobId] =
          [f \in DOMAIN jobs[jobId] |->
             IF f = "updatedAtUnixMs" THEN t
             ELSE IF f \in DOMAIN partialJobUpdate \ {"outputArtifactId"}
               THEN partialJobUpdate[f]
             ELSE jobs[jobId][f]]]

\* An updateJobStatus that writes the status into the record in place and
\* leaves the other fields of the update for later.
updateJobStatusStatusFirst(jobs, jobId, partialJobUpdate, t) ==
  IF jobId \notin DOMAIN jobs THEN jobs
  ELSE [jobs EXCEPT ![jobId] =
          [f \in DOMAIN jobs[jobId] |->
             IF f = "status" /\ f \in DOMAIN partialJobUpdate THEN partialJobUpdate[f]
             ELSE jobs[jobId][f]]]
\* An updateJobStatus that leaves the record alone when the update is the
\* run's first one, as if runImageGenerationJob marked the job running
\* only after its first await.
updateJobStatusDefersRunning(jobs, jobId, partialJobUpdate, t) ==
  IF partialJobUpdate.status = "running" THEN jobs
  ELSE IF jobId \notin DOMAIN jobs THEN jobs
    ELSE [jobs EXCEPT ![jobId] =
            [f \in DOMAIN jobs[jobId] |->
               IF f = "updatedAtUnixMs" THEN t
               ELSE IF f \in DOMAIN partialJobUpdate THEN partialJobUpdate[f]
               ELSE jobs[jobId][f]]]

\* updateJobStatus at time t: a job that is not in the index is left alone.
updateJobStatus(jobs, jobId, partialJobUpdate, t) ==
  IF jobId \notin DOMAIN jobs THEN jobs
  ELSE [jobs EXCEPT ![jobId] =
          [f \in DOMAIN jobs[jobId] |->
             IF f = "updatedAtUnixMs" THEN t
             ELSE IF f \in DOMAIN partialJobUpdate THEN partialJobUpdate[f]
             ELSE jobs[jobId][f]]]

serializeJobForResponse(imageGenerationJobRecord) ==
  [jobId |-> imageGenerationJobRecord.jobId,
   status |-> imageGenerationJobRecord.status,
   createdAtUnixMs |-> imageGenerationJobRecord.createdAtUnixMs,
   updatedAtUnixMs |-> imageGenerationJobRecord.updatedAtUnixMs,
   expiresAtUnixMs |-> imageGenerationJobRecord.expiresAtUnixMs,
   errorMessage |-> imageGenerationJobRecord.errorMessage,
   outputArtifactId |-> imageGenerationJobRecord.outputArtifactId,
   outputArtifactUrl |-> imageGenerationJobRecord.outputArtifactUrl]

\* The status a step writes into the index, appended to the job's history.
RecordStatus(jobId, jobsBefore, jobsAfter) ==
  statusHistory' = IF jobId \in DOMAIN jobsBefore /\ jobId \in DOMAIN jobsAfter
                     THEN [statusHistory EXCEPT ![jobId] = Append(@, jobsAfter[jobId].status)]
                     ELSE statusHistory

\* The latest step of the store settled no operation.
NoReturn ==
  [op |-> "none", id |-> 0, result |-> Null, raised |-> FALSE,
   evicted |-> FALSE, source |-> "none", fileMissing |-> FALSE, expiredAtCall |-> FALSE,
   fromRegistry |-> {}, fromDisk |-> {}, before |-> {}, expiredAtStart |-> {},
   unparsableAtStart |-> {}, settledAt |-> "none"]

\* Nothing has been returned by the store yet.
EmptyStoreLog ==
  [created |-> EmptyMap, survivedRestart |-> {}, evictedByRead |-> {}, restarted |-> FALSE]

Init ==
  /\ now = 0
  /\ artifactTtl \in 1..MaxTtl
  /\ artifactRegistryById = EmptyMap
  /\ artifactFiles = EmptyMap
  /\ artifactSidecars = EmptyMap
  /\ nextArtifactId = 1
  /\ uploads = 0
  /\ imageGenerationJobsById = EmptyMap
  /\ nextJobId = 1
  /\ run = EmptyMap
  /\ statusHistory = [j \in JobIds |-> <<>>]
  /\ backendCalls = [j \in JobIds |-> 0]
  /\ backendAnswer = [j \in JobIds |-> <<"none", "none">>]
  /\ runsLaunched = [j \in JobIds |-> 0]
  /\ runCause = [j \in JobIds |-> "none"]
  /\ outputsOf = [j \in JobIds |-> {}]
  /\ startResponse = EmptyMap
  /\ lastStart = [httpStatus |-> 0, insertedJobId |-> 0, launchedRun |-> FALSE]
  /\ lastGet = [jobId |-> 0, result |-> Null]
  /\ sweptJobs = {}
  /\ removedOutOfBand = {}
  /\ backendPayload = [j \in JobIds |-> Null]
  /\ lateAnswer = [j \in JobIds |-> FALSE]
  /\ storeCalls = {}
  /\ booted = TRUE
  /\ cleanupTimer = 1
  /\ lastReturn = NoReturn
  /\ storeLog = EmptyStoreLog
  /\ plyHeader = GoodHeader
  /\ plyOutcome = NotValidated
  /\ plyEdits = 0
  /\ environment = NoEnvironment
  /\ timeoutMilliseconds = resolveTimeoutMilliseconds(NoEnvironment)
  /\ createdWithExtension = EmptyMap
  /\ lastUpload = NoUpload
  /\ pollState = "idle"
  /\ pollingAttemptIndex = 0
  /\ pollsIssued = 0
  /\ lastPollAnswer = Null
  /\ pollOutcome = Polling
  /\ modalEndpointUrlSetting = Null
  /\ modalCall = NoModalCall
  /\ pendingTimers = {}
  /\ player = NewPlayer
  /\ viewer = NewViewer
  /\ playerClock = 0
  /\ lastPlayerCall = "none"

jobVars == <<imageGenerationJobsById, nextJobId, run, statusHistory, backendCalls, backendAnswer,
             runsLaunched, runCause, outputsOf, startResponse, lastStart, lastGet,
             sweptJobs>>

\* The clock advances.
Tick ==
  /\ now < MaxTime
  /\ now' = now + 1
  /\ UNCHANGED <<configVars, plyVars, sideVars, clientVars, callVars, storeVars, nextArtifactId, uploads, jobVars, removedOutOfBand>>

\* The display name the upload route resolves for a file without a name.
DisplayNameFor(mimeType) ==
  IF IsImageMimeType(mimeType) THEN "uploaded-image.jpg" ELSE "uploaded.ply"

\* A caller (upload route or tool) stores an artifact.
CreateArtifact(mimeType, outcome) ==
  /\ uploads < MaxUploads
  /\ uploads' = uploads + 1
  /\ LET bytes == IF IsImageMimeType(mimeType) THEN ImageBytes ELSE PlyGood
         created == createArtifactFromBytes(Store, nextArtifactId, bytes, mimeType,
                                            DisplayNameFor(mimeType),
                                            artifactTtl, now, outcome)
     IN SetStore(created.store)
  /\ createdWithExtension' = Put(createdWithExtension, nextArtifactId,
                                 IF IsImageMimeType(mimeType) THEN ".jpg" ELSE ".ply")
  /\ nextArtifactId' = nextArtifactId + 1
  /\ UNCHANGED <<now, configVars, plyVars, timeoutVars, peripheralVars, lastUpload, clientVars, callVars, jobVars, removedOutOfBand>>

\* The cleanup timer of the store fires.
SweepArtifacts ==
  /\ SetStore(deleteExpiredArtifacts(Store, now))
  /\ UNCHANGED <<now, configVars, plyVars, sideVars, clientVars, callVars, nextArtifactId, uploads, jobVars, removedOutOfBand>>

\* A backing file is deleted behind the store's back.
RemoveFileOutOfBand(artifactIdentifier) ==
  /\ artifactIdentifier \in DOMAIN artifactFiles
  /\ artifactFiles' = Remove(artifactFiles, artifactIdentifier)
  /\ removedOutOfBand' = removedOutOfBand \cup {artifactIdentifier}
  /\ UNCHANGED <<now, configVars, plyVars, sideVars, clientVars, callVars, artifactRegistryById, artifactSidecars,
                 nextArtifactId, uploads, jobVars>>

\* ------------------------------------------------------ Modal client
\* What the endpoint does with one request: a 2xx answer carrying a payload,
\* a 2xx answer whose body does not have the expected fields, a non-2xx
\* answer with a status code and a body, a transport error, or no answer
\* before the timeout timer aborts the request.
HttpErrorStatuses == {"500", "404"}
BackendResponses ==
  {[kind |-> "ok", status |-> "200", plyBytes |-> b] :
      b \in {PlyGood, PlyMissingRot, NotPly}}
  \cup {[kind |-> "http", status |-> c, plyBytes |-> EmptyBytes] : c \in HttpErrorStatuses}
  \cup {[kind |-> k, status |-> "200", plyBytes |-> EmptyBytes] : k \in {"badSchema"}}
  \cup {[kind |-> k, status |-> "none", plyBytes |-> EmptyBytes] :
          k \in {"networkError", "timeout"}}

\* A client that reports a non-2xx answer without its status code.
generateSplatFromImageNoStatus(response) ==
  CASE response.kind = "timeout" ->
         [plyBytes |-> Null, cause |-> "timeout",
          error |-> Some(<<"This operation was aborted">>)]
    [] response.kind = "networkError" ->
         [plyBytes |-> Null, cause |-> "networkError", error |-> Some(<<"fetch failed">>)]
    [] response.kind = "http" ->
         [plyBytes |-> Null, cause |-> "http",
          error |-> Some(<<"Modal inference request failed: ", "errorResponseText">>)]
    [] response.kind = "badSchema" ->
         [plyBytes |-> Null, cause |-> "badSchema",
          error |-> Some(<<"Modal endpoint response did not match expected schema.">>)]
    [] OTHER ->
         IF IsNull(assertLooksLikePlyPayload(response.plyBytes))
           THEN [plyBytes |-> Some(response.plyBytes), cause |-> "completed", error |-> Null]
           ELSE [plyBytes |-> Null, cause |-> "notPlyPayload",
                 error |-> assertLooksLikePlyPayload(response.plyBytes)]

\* generateSplatFromImage once the fetch has settled: the payload returned,
\* or the message of the Error thrown, with the place it was thrown.
generateSplatFromImage(response) ==
  CASE response.kind = "timeout" ->
         [plyBytes |-> Null, cause |-> "timeout",
          error |-> Some(<<"This operation was aborted">>)]
    [] response.kind = "networkError" ->
         [plyBytes |-> Null, cause |-> "networkError", error |-> Some(<<"fetch failed">>)]
    [] response.kind = "http" ->
         [plyBytes |-> Null, cause |-> "http",
          error |-> Some(<<"Modal inference request failed with HTTP ", response.status,
                           ": ", "errorResponseText">>)]
    [] response.kind = "badSchema" ->
         [plyBytes |-> Null, cause |-> "badSchema",
          error |-> Some(<<"Modal endpoint response did not match expected schema.">>)]
    [] OTHER ->
         IF IsNull(assertLooksLikePlyPayload(response.plyBytes))
           THEN [plyBytes |-> Some(response.plyBytes), cause |-> "completed", error |-> Null]
           ELSE [plyBytes |-> Null, cause |-> "notPlyPayload",
                 error |-> assertLooksLikePlyPayload(response.plyBytes)]

\* ------------------------------------------------------- job routes
ArtifactIds == 1..(MaxUploads + MaxJobs)

SweepJobs(jobsAfter) ==
  sweptJobs' = sweptJobs \cup (DOMAIN imageGenerationJobsById \ DOMAIN jobsAfter)

RunDone == [pc |-> "done", imageArtifactId |-> 0, plyBytes |-> Null]

\* POST /jobs/image-to-splat whose body is not JSON or carries no usable
\* imageArtifactId: 400 before anything is looked up.
StartRejected ==
  /\ LET jobs0 == cleanupExpiredImageGenerationJobs(imageGenerationJobsById, now)
     IN /\ imageGenerationJobsById' = jobs0
        /\ SweepJobs(jobs0)
  /\ lastStart' = [httpStatus |-> 400, insertedJobId |-> 0, launchedRun |-> FALSE]
  /\ UNCHANGED <<now, configVars, plyVars, sideVars, clientVars, callVars, storeVars, nextArtifactId, uploads, nextJobId, run,
                 statusHistory, backendCalls, backendAnswer, runsLaunched, runCause, outputsOf,
                 startResponse, lastGet, removedOutOfBand>>

\* The response of start once the record is inserted and the run launched:
\* building statusEndpointUrl throws when the public base URL is invalid, and
\* the handler's catch answers 400.
StartAnswer(base, imageGenerationJobRecord) ==
  IF IsNull(resolvePublicUrlForPath(base, "/jobs/image-to-splat/id"))
    THEN [httpStatus |-> 400, body |-> Null]
    ELSE [httpStatus |-> 202, body |-> Some(serializeJobForResponse(imageGenerationJobRecord))]

\* POST /jobs/image-to-splat with imageArtifactId = artifactIdentifier.  The
\* handler runs to its response; runImageGenerationJob, called without await,
\* runs inside it up to its first suspension.  jobTtl and mcpUrl are the
\* values the handler reads from process.env during this request.
Start(artifactIdentifier, jobTtl, mcpUrl) ==
  /\ nextJobId <= MaxJobs
  /\ LET jobs0 == cleanupExpiredImageGenerationJobs(imageGenerationJobsById, now)
         got == getArtifactIfAvailable(Store, artifactIdentifier, now)
         jobIdentifier == nextJobId
         imageGenerationJobRecord ==
           [jobId |-> jobIdentifier, status |-> "queued",
            createdAtUnixMs |-> now, updatedAtUnixMs |-> now,
            expiresAtUnixMs |-> now + jobTtl,
            imageArtifactId |-> artifactIdentifier,
            errorMessage |-> Null, outputArtifactId |-> Null,
            outputArtifactUrl |-> Null]
         jobs1 == Put(jobs0, jobIdentifier, imageGenerationJobRecord)
         jobs2 == updateJobStatus(jobs1, jobIdentifier,
                                  [status |-> "running", errorMessage |-> Null], now)
         answer == StartAnswer(mcpUrl, imageGenerationJobRecord)
     IN /\ SetStore(got.store)
        /\ IF IsNull(got.result) \/ ~IsImageMimeType(TheValue(got.result).mimeType)
             THEN /\ imageGenerationJobsById' = jobs0
                  /\ SweepJobs(jobs0)
                  /\ lastStart' = [httpStatus |-> IF IsNull(got.result) THEN 404 ELSE 400,
                                   insertedJobId |-> 0, launchedRun |-> FALSE]
                  /\ UNCHANGED <<nextJobId, run, statusHistory, runsLaunched, startResponse>>
             ELSE /\ imageGenerationJobsById' = jobs2
                  /\ SweepJobs(jobs0)
                  /\ nextJobId' = nextJobId + 1
                  /\ run' = Put(run, jobIdentifier,
                                [pc |-> "getSource", imageArtifactId |-> artifactIdentifier,
                                 plyBytes |-> Null])
                  /\ statusHistory' = [statusHistory EXCEPT ![jobIdentifier] =
                                         <<jobs1[jobIdentifier].status,
                                           jobs2[jobIdentifier].status>>]
                  /\ runsLaunched' = [runsLaunched EXCEPT ![jobIdentifier] = @ + 1]
                  /\ lastStart' = [httpStatus |-> answer.httpStatus,
                                   insertedJobId |-> jobIdentifier, launchedRun |-> TRUE]
                  /\ startResponse' = IF IsNull(answer.body) THEN startResponse
                                      ELSE Put(startResponse, jobIdentifier,
                                               TheValue(answer.body))
  /\ UNCHANGED <<now, configVars, plyVars, sideVars, clientVars, callVars, nextArtifactId, uploads, backendCalls, backendAnswer, runCause,
                 outputsOf, lastGet, removedOutOfBand>>

\* A GET handler whose sweep of expired jobs deletes their output artifacts
\* with them.
GetDeletesOutputs(jobIdentifier) ==
  /\ LET jobs0 == cleanupExpiredImageGenerationJobs(imageGenerationJobsById, now)
         swept == DOMAIN imageGenerationJobsById \ DOMAIN jobs0
     IN /\ imageGenerationJobsById' = jobs0
        /\ SweepJobs(jobs0)
        /\ SetStore(deleteAll(Store, UNION {outputsOf[j] : j \in swept}))
        /\ lastGet' = [jobId |-> jobIdentifier,
                       result |-> IF jobIdentifier \in DOMAIN jobs0
                                    THEN Some(serializeJobForResponse(jobs0[jobIdentifier]))
                                    ELSE Null]
  /\ UNCHANGED <<now, configVars, plyVars, sideVars, clientVars, callVars, nextArtifactId, uploads, nextJobId, run,
                 statusHistory, backendCalls, backendAnswer, runsLaunched, runCause, outputsOf,
                 startResponse, lastStart, removedOutOfBand>>

\* A GET handler that refreshes updatedAtUnixMs of the job it reads.
GetTouches(jobIdentifier) ==
  /\ LET jobs0 == updateJobStatus(
                    cleanupExpiredImageGenerationJobs(imageGenerationJobsById, now),
                    jobIdentifier, EmptyMap, now)
     IN /\ imageGenerationJobsById' = jobs0
        /\ SweepJobs(jobs0)
        /\ lastGet' = [jobId |-> jobIdentifier,
                       result |-> IF jobIdentifier \in DOMAIN jobs0
                                    THEN Some(serializeJobForResponse(jobs0[jobIdentifier]))
                                    ELSE Null]
  /\ UNCHANGED <<now, configVars, plyVars, sideVars, clientVars, callVars, storeVars, nextArtifactId, uploads, nextJobId, run,
                 statusHistory, backendCalls, backendAnswer, runsLaunched, runCause,
                 outputsOf, startResponse, lastStart, removedOutOfBand>>

\* GET /jobs/image-to-splat/:jobId
Get(jobIdentifier) ==
  /\ LET jobs0 == cleanupExpiredImageGenerationJobs(imageGenerationJobsById, now)
     IN /\ imageGenerationJobsById' = jobs0
        /\ SweepJobs(jobs0)
        /\ lastGet' = [jobId |-> jobIdentifier,
                       result |-> IF jobIdentifier \in DOMAIN jobs0
                                    THEN Some(serializeJobForResponse(jobs0[jobIdentifier]))
                                    ELSE Null]
  /\ UNCHANGED <<now, configVars, plyVars, sideVars, clientVars, callVars, storeVars, nextArtifactId, uploads, nextJobId, run,
                 statusHistory, backendCalls, backendAnswer, runsLaunched, runCause, outputsOf,
                 startResponse, lastStart, removedOutOfBand>>

\* ------------------------------------------ runImageGenerationJob steps
\* A catch block that puts the run back at its first step after recording
\* the failure: an automatic retry.
FailRunRetry(jobId, cause, normalizedErrorMessage) ==
  /\ imageGenerationJobsById' =
       updateJobStatus(imageGenerationJobsById, jobId,
                       [status |-> "failed", errorMessage |-> Some(normalizedErrorMessage)],
                       now)
  /\ RecordStatus(jobId, imageGenerationJobsById, imageGenerationJobsById')
  /\ run' = [run EXCEPT ![jobId].pc = IF backendCalls[jobId] < 2 THEN "getSource" ELSE "done"]
  /\ runCause' = [runCause EXCEPT ![jobId] = cause]

\* A catch block that marks the job failed without the message.
FailRunNoMessage(jobId, cause, normalizedErrorMessage) ==
  /\ imageGenerationJobsById' =
       updateJobStatus(imageGenerationJobsById, jobId, [status |-> "failed"], now)
  /\ RecordStatus(jobId, imageGenerationJobsById, imageGenerationJobsById')
  /\ run' = [run EXCEPT ![jobId] = RunDone]
  /\ runCause' = [runCause EXCEPT ![jobId] = cause]

\* A catch block that swallows the error and leaves the job as it is.
FailRunSwallow(jobId, cause, normalizedErrorMessage) ==
  /\ run' = [run EXCEPT ![jobId] = RunDone]
  /\ runCause' = [runCause EXCEPT ![jobId] = cause]
  /\ UNCHANGED <<imageGenerationJobsById, statusHistory>>

\* The catch block of runImageGenerationJob.
FailRun(jobId, cause, normalizedErrorMessage) ==
  /\ imageGenerationJobsById' =
       updateJobStatus(imageGenerationJobsById, jobId,
                       [status |-> "failed", errorMessage |-> Some(normalizedErrorMessage)],
                       now)
  /\ RecordStatus(jobId, imageGenerationJobsById, imageGenerationJobsById')
  /\ run' = [run EXCEPT ![jobId] = RunDone]
  /\ runCause' = [runCause EXCEPT ![jobId] = cause]

\* The end of the try block with the catch block run after the update to
\* succeeded, as when a statement after the update throws.
SucceedRunThenCatch(jobId, generatedArtifact, outputArtifactUrl) ==
  LET jobs1 == updateJobStatus(imageGenerationJobsById, jobId,
                               [status |-> "succeeded", errorMessage |-> Null,
                                outputArtifactId |-> Some(generatedArtifact.artifactId),
                                outputArtifactUrl |-> outputArtifactUrl],
                               now)
      jobs2 == updateJobStatus(jobs1, jobId,
                               [status |-> "failed", errorMessage |-> Some(<<"log failed">>)],
                               now)
  IN /\ imageGenerationJobsById' = jobs2
     /\ statusHistory' = IF jobId \in DOMAIN imageGenerationJobsById
                            THEN [statusHistory EXCEPT ![jobId] =
                                    @ \o <<jobs1[jobId].status, jobs2[jobId].status>>]
                            ELSE statusHistory
     /\ run' = [run EXCEPT ![jobId] = RunDone]
     /\ runCause' = [runCause EXCEPT ![jobId] = "completed"]

\* The end of the try block: the update to succeeded with the output
\* artifact's id and URL.
SucceedRun(jobId, generatedArtifact, outputArtifactUrl) ==
  /\ imageGenerationJobsById' =
       updateJobStatus(imageGenerationJobsById, jobId,
                       [status |-> "succeeded", errorMessage |-> Null,
                        outputArtifactId |-> Some(generatedArtifact.artifactId),
                        outputArtifactUrl |-> outputArtifactUrl],
                       now)
  /\ RecordStatus(jobId, imageGenerationJobsById, imageGenerationJobsById')
  /\ run' = [run EXCEPT ![jobId] = RunDone]
  /\ runCause' = [runCause EXCEPT ![jobId] = "completed"]

\* A first step that relies on the check the start handler made and goes on
\* to read the bytes without looking at what the store returned.
RunGetSourceTrustsStart(jobId) ==
  /\ jobId \in DOMAIN run
  /\ run[jobId].pc = "getSource"
  /\ SetStore(getArtifactIfAvailable(Store, run[jobId].imageArtifactId, now).store)
  /\ run' = [run EXCEPT ![jobId].pc = "awaitBackend"]
  /\ backendCalls' = [backendCalls EXCEPT ![jobId] = @ + 1]
  /\ UNCHANGED <<imageGenerationJobsById, statusHistory, runCause>>
  /\ UNCHANGED <<now, configVars, plyVars, sideVars, clientVars, callVars, nextArtifactId, uploads, nextJobId, backendAnswer,
                 runsLaunched, outputsOf, startResponse, lastStart, lastGet, sweptJobs,
                 removedOutOfBand>>

\* await getArtifactIfAvailable(existingJobRecord.imageArtifactId)
RunGetSource(jobId) ==
  /\ jobId \in DOMAIN run
  /\ run[jobId].pc = "getSource"
  /\ LET got == getArtifactIfAvailable(Store, run[jobId].imageArtifactId, now)
     IN /\ SetStore(got.store)
        /\ IF IsNull(got.result)
             THEN FailRun(jobId, "sourceNotFound",
                          <<"Source image artifact was not found or has expired.">>)
           ELSE IF ~IsImageMimeType(TheValue(got.result).mimeType)
             THEN FailRun(jobId, "sourceNotImage",
                          <<"Source artifact is not an image (mimeType=",
                            TheValue(got.result).mimeType, ").">>)
           ELSE /\ run' = [run EXCEPT ![jobId].pc = "readBytes"]
                /\ UNCHANGED <<imageGenerationJobsById, statusHistory, runCause>>
  /\ UNCHANGED <<now, configVars, plyVars, sideVars, clientVars, callVars, nextArtifactId, uploads, nextJobId, backendCalls, backendAnswer,
                 runsLaunched, outputsOf, startResponse, lastStart, lastGet, sweptJobs,
                 removedOutOfBand>>

\* await readArtifactBytes(...), then the synchronous start of
\* generateSplatFromImage up to its fetch.  readFails: readFile raises an
\* error other than ENOENT.  modalEndpointConfigured: SHARP_MODAL_ENDPOINT_URL
\* in process.env is a valid URL when the client reads it.
RunReadBytes(jobId, readFails, modalEndpointConfigured) ==
  /\ jobId \in DOMAIN run
  /\ run[jobId].pc = "readBytes"
  /\ LET read == readArtifactBytes(Store, run[jobId].imageArtifactId, now)
     IN /\ SetStore(read.store)
        /\ IF IsNull(read.result)
             THEN /\ FailRun(jobId, "sourceBytesUnavailable",
                             <<"Source image bytes were not available for generation.">>)
                  /\ UNCHANGED <<backendCalls, backendAnswer>>
           ELSE IF readFails
             THEN /\ FailRun(jobId, "readError", <<"EIO: i/o error, read">>)
                  /\ UNCHANGED <<backendCalls, backendAnswer>>
           ELSE IF ~modalEndpointConfigured
             THEN /\ FailRun(jobId, "endpointNotConfigured",
                             <<"SHARP_MODAL_ENDPOINT_URL is not configured. Set it to your deployed Modal generate_splat_from_image endpoint URL.">>)
                  /\ UNCHANGED <<backendCalls, backendAnswer>>
           ELSE /\ run' = [run EXCEPT ![jobId].pc = "awaitBackend"]
                /\ backendCalls' = [backendCalls EXCEPT ![jobId] = @ + 1]
                /\ UNCHANGED backendAnswer
                /\ UNCHANGED <<imageGenerationJobsById, statusHistory, runCause>>
  /\ UNCHANGED <<now, configVars, plyVars, sideVars, clientVars, callVars, nextArtifactId, uploads, nextJobId,
                 runsLaunched, outputsOf, startResponse, lastStart, lastGet, sweptJobs,
                 removedOutOfBand>>

\* A handler of the settled fetch that does not validate the payload.
RunBackendResponseSkipsValidation(jobId, response) ==
  /\ jobId \in DOMAIN run
  /\ run[jobId].pc = "awaitBackend"
  /\ backendAnswer' = [backendAnswer EXCEPT ![jobId] = <<response.kind, response.status>>]
  /\ backendPayload' = [backendPayload EXCEPT ![jobId] =
                          IF response.kind = "ok" THEN Some(response.plyBytes) ELSE Null]
  /\ LET generatedSplatResult == generateSplatFromImage(response)
     IN IF ~IsNull(generatedSplatResult.error)
          THEN FailRun(jobId, generatedSplatResult.cause,
                       TheValue(generatedSplatResult.error))
        ELSE /\ run' = [run EXCEPT ![jobId].pc = "persist",
                                   ![jobId].plyBytes = generatedSplatResult.plyBytes]
             /\ UNCHANGED <<imageGenerationJobsById, statusHistory, runCause>>
  /\ UNCHANGED <<now, configVars, plyVars, sideVars, lateAnswer, callVars, storeVars, nextArtifactId, uploads,
                 nextJobId, backendCalls, runsLaunched, outputsOf, startResponse, lastStart,
                 lastGet, sweptJobs, removedOutOfBand>>

\* The fetch settles; the client checks the answer and the run validates
\* the payload, up to the first suspension of createArtifactFromBytes.
RunBackendResponse(jobId, response) ==
  /\ jobId \in DOMAIN run
  /\ run[jobId].pc = "awaitBackend"
  /\ backendAnswer' = [backendAnswer EXCEPT ![jobId] = <<response.kind, response.status>>]
  /\ backendPayload' = [backendPayload EXCEPT ![jobId] =
                          IF response.kind = "ok" THEN Some(response.plyBytes) ELSE Null]
  /\ LET generatedSplatResult == generateSplatFromImage(response)
     IN IF ~IsNull(generatedSplatResult.error)
          THEN FailRun(jobId, generatedSplatResult.cause,
                       TheValue(generatedSplatResult.error))
        ELSE IF ~IsNull(validateLikelyGaussianSplatPly(TheValue(generatedSplatResult.plyBytes)))
          THEN FailRun(jobId, "validation",
                       TheValue(validateLikelyGaussianSplatPly(
                                  TheValue(generatedSplatResult.plyBytes))))
        ELSE /\ run' = [run EXCEPT ![jobId].pc = "persist",
                                   ![jobId].plyBytes = generatedSplatResult.plyBytes]
             /\ UNCHANGED <<imageGenerationJobsById, statusHistory, runCause>>
  /\ UNCHANGED <<now, configVars, plyVars, sideVars, lateAnswer, callVars, storeVars, nextArtifactId, uploads,
                 nextJobId, backendCalls, runsLaunched, outputsOf, startResponse, lastStart,
                 lastGet, sweptJobs, removedOutOfBand>>

\* An answer that is taken as the result of the request although the
\* request was aborted: the run resumes with its payload.
LateBackendResponseResumes(jobId, response) ==
  /\ jobId \in DOMAIN run
  /\ backendAnswer[jobId][1] = "timeout"
  /\ ~lateAnswer[jobId]
  /\ response.kind \in {"ok", "http", "badSchema"}
  /\ lateAnswer' = [lateAnswer EXCEPT ![jobId] = TRUE]
  /\ run' = [run EXCEPT ![jobId].pc = "persist", ![jobId].plyBytes = Some(PlyGood)]
  /\ UNCHANGED <<now, configVars, plyVars, sideVars, callVars, storeVars, nextArtifactId, uploads,
                 imageGenerationJobsById, nextJobId, statusHistory, backendCalls,
                 backendAnswer, backendPayload, runsLaunched, runCause, outputsOf,
                 startResponse, lastStart, lastGet, sweptJobs, removedOutOfBand>>

\* The endpoint answers a request the timeout timer has already aborted:
\* the fetch was rejected when the signal fired, so the answer reaches no
\* continuation and nothing of the run or the job changes.
LateBackendResponse(jobId, response) ==
  /\ jobId \in DOMAIN run
  /\ backendAnswer[jobId][1] = "timeout"
  /\ ~lateAnswer[jobId]
  /\ response.kind \in {"ok", "http", "badSchema"}
  /\ lateAnswer' = [lateAnswer EXCEPT ![jobId] = TRUE]
  /\ UNCHANGED <<now, configVars, plyVars, sideVars, callVars, storeVars, nextArtifactId, uploads,
                 imageGenerationJobsById, nextJobId, run, statusHistory, backendCalls,
                 backendAnswer, backendPayload, runsLaunched, runCause, outputsOf,
                 startResponse, lastStart, lastGet, sweptJobs, removedOutOfBand>>

\* A last step that marks the job succeeded whether or not the output
\* artifact was written.
RunPersistMarksUnwritten(jobId, outcome, mcpUrl) ==
  /\ jobId \in DOMAIN run
  /\ run[jobId].pc = "persist"
  /\ LET created == createArtifactFromBytes(Store, nextArtifactId,
                                            TheValue(run[jobId].plyBytes),
                                            "application/octet-stream",
                                            "uploaded-image.jpg.ply",
                                            artifactTtl, now, outcome)
         outputArtifactUrl == resolvePublicUrlForPath(mcpUrl, "/artifacts/id")
     IN /\ SetStore(created.store)
        /\ nextArtifactId' = nextArtifactId + 1
        /\ outputsOf' = [outputsOf EXCEPT ![jobId] =
                           IF nextArtifactId \in DOMAIN created.store.files
                             THEN @ \cup {nextArtifactId} ELSE @]
        /\ IF IsNull(outputArtifactUrl)
             THEN FailRun(jobId, "publicUrl", <<"Invalid URL">>)
           ELSE SucceedRun(jobId, [artifactId |-> nextArtifactId], outputArtifactUrl)
  /\ UNCHANGED <<now, configVars, plyVars, sideVars, clientVars, callVars, uploads, nextJobId, backendCalls, backendAnswer, runsLaunched,
                 startResponse, lastStart, lastGet, sweptJobs, removedOutOfBand>>

\* await createArtifactFromBytes(...), then the update to succeeded.  mcpUrl
\* is the public base URL buildPublicArtifactUrl reads from process.env.
RunPersist(jobId, outcome, mcpUrl) ==
  /\ jobId \in DOMAIN run
  /\ run[jobId].pc = "persist"
  /\ LET created == createArtifactFromBytes(Store, nextArtifactId,
                                            TheValue(run[jobId].plyBytes),
                                            "application/octet-stream",
                                            "uploaded-image.jpg.ply",
                                            artifactTtl, now, outcome)
         outputArtifactUrl == resolvePublicUrlForPath(mcpUrl, "/artifacts/id")
     IN /\ SetStore(created.store)
        /\ createdWithExtension' = Put(createdWithExtension, nextArtifactId, ".ply")
        /\ nextArtifactId' = nextArtifactId + 1
        /\ outputsOf' = [outputsOf EXCEPT ![jobId] =
                           IF nextArtifactId \in DOMAIN created.store.files
                             THEN @ \cup {nextArtifactId} ELSE @]
        /\ IF IsNull(created.result)
             THEN FailRun(jobId, "diskWrite", TheValue(created.error))
           ELSE IF IsNull(outputArtifactUrl)
             THEN FailRun(jobId, "publicUrl", <<"Invalid URL">>)
           ELSE SucceedRun(jobId, TheValue(created.result), outputArtifactUrl)
  /\ UNCHANGED <<now, configVars, plyVars, timeoutVars, peripheralVars, lastUpload, clientVars, callVars, uploads, nextJobId, backendCalls, backendAnswer, runsLaunched,
                 startResponse, lastStart, lastGet, sweptJobs, removedOutOfBand>>

Next ==
  \/ Tick
  \/ \E mimeType \in MimeTypes, outcome \in CreateOutcomes : CreateArtifact(mimeType, outcome)
  \/ SweepArtifacts
  \/ \E artifactIdentifier \in ArtifactIds : RemoveFileOutOfBand(artifactIdentifier)
  \/ StartRejected
  \/ \E artifactIdentifier \in ArtifactIds, jobTtl \in 1..MaxTtl, mcpUrl \in PublicBaseUrls :
       Start(artifactIdentifier, jobTtl, mcpUrl)
  \/ \E jobIdentifier \in JobIds : Get(jobIdentifier)
  \/ \E jobId \in JobIds : RunGetSource(jobId)
  \/ \E jobId \in JobIds, readFails \in BOOLEAN, modalEndpointConfigured \in BOOLEAN :
       RunReadBytes(jobId, readFails, modalEndpointConfigured)
  \/ \E jobId \in JobIds, response \in BackendResponses : RunBackendResponse(jobId, response)
  \/ \E jobId \in JobIds, response \in BackendResponses : LateBackendResponse(jobId, response)
  \/ \E jobId \in JobIds, outcome \in CreateOutcomes, mcpUrl \in PublicBaseUrls :
       RunPersist(jobId, outcome, mcpUrl)

Spec == Init /\ [][Next]_vars

\* The event loop resumes every run whose awaited operation has settled:
\* disk reads and writes complete, and the fetch either answers or is aborted
\* by the timeout timer.
FairSpec ==
  /\ Spec
  /\ WF_vars(\E jobId \in JobIds : RunGetSource(jobId))
  /\ WF_vars(\E jobId \in JobIds, readFails \in BOOLEAN, modalEndpointConfigured \in BOOLEAN :
               RunReadBytes(jobId, readFails, modalEndpointConfigured))
  /\ WF_vars(\E jobId \in JobIds, response \in BackendResponses :
               RunBackendResponse(jobId, response))
  /\ WF_vars(\E jobId \in JobIds, outcome \in CreateOutcomes, mcpUrl \in PublicBaseUrls :
               RunPersist(jobId, outcome, mcpUrl))

\* ============================================ store operations, await by await
\* Each operation of the store in flight is a record: the operation, the
\* await it is suspended at, the artifact it is working on, and its locals.
\* A step performs the awaited file-system operation and runs the code that
\* follows it up to the next await.  Sets are iterated in order of creation.
NoCall ==
  [op |-> "idle", pc |-> "idle", id |-> 0, calledAt |-> 0, stored |-> Null,
   scan |-> {}, toDelete |-> {}, bytes |-> EmptyBytes, mimeType |-> "",
   source |-> "none", expiredAtCall |-> FALSE, fromRegistry |-> {}, fromDisk |-> {},
   before |-> {}, expiredAtStart |-> {}, unparsableAtStart |-> {}]

SetMin(S) == CHOOSE x \in S : \A y \in S : x <= y

\* Which of the three parts of an artifact exist.
PartsOf(s, artifactIdentifier) ==
  (IF artifactIdentifier \in DOMAIN s.registry THEN {"record"} ELSE {})
  \cup (IF artifactIdentifier \in DOMAIN s.files THEN {"file"} ELSE {})
  \cup (IF artifactIdentifier \in DOMAIN s.meta THEN {"sidecar"} ELSE {})

\* The operation goes on, suspended at its next await.
Continue(s, c) == [store |-> s, call |-> Some(c), ret |-> Null]

\* The operation settles: it returns result, or throws when raised.
Return(s, c, result, raised, evicted) ==
  [store |-> s, call |-> Null,
   ret |-> Some([op |-> c.op, id |-> c.id, result |-> result,
                 raised |-> raised, evicted |-> evicted, source |-> c.source,
                 fileMissing |-> c.id \in removedOutOfBand,
                 expiredAtCall |-> c.expiredAtCall,
                 fromRegistry |-> c.fromRegistry, fromDisk |-> c.fromDisk,
                 before |-> c.before, expiredAtStart |-> c.expiredAtStart,
                 unparsableAtStart |-> c.unparsableAtStart, settledAt |-> c.pc])]

\* deleteArtifact up to its first await: a registry hit is removed at once
\* and the file is removed next; a miss waits for the sidecar to be read.
EnterDelete(s, c, artifactIdentifier) ==
  IF artifactIdentifier \in DOMAIN s.registry
    THEN Continue([s EXCEPT !.registry = Remove(s.registry, artifactIdentifier)],
                  [c EXCEPT !.id = artifactIdentifier,
                            !.stored = Some(s.registry[artifactIdentifier]),
                            !.pc = "rmFile"])
    ELSE Continue(s, [c EXCEPT !.id = artifactIdentifier, !.stored = Null,
                               !.pc = "deleteReadMetadata"])

\* deleteExpiredArtifacts: the loop over artifactIdentifiersToDelete.
SweepDeleteNext(s, c) ==
  IF c.toDelete = {} THEN Return(s, [c EXCEPT !.id = 0], Null, FALSE, FALSE)
  ELSE EnterDelete(s, c, SetMin(c.toDelete))

\* A sweep that deletes what the registry holds and does not look at the
\* sidecar files of the directory.
SweepScanNextSkipsDisk(s, c) == SweepDeleteNext(s, c)

\* deleteExpiredArtifacts: the loop over the sidecar files of the directory.
SweepScanNext(s, c) ==
  IF c.scan = {} THEN SweepDeleteNext(s, c)
  ELSE Continue(s, [c EXCEPT !.id = SetMin(c.scan), !.pc = "sweepReadMetadata"])

\* hydrateArtifactRegistryFromDisk: the loop over the sidecar files.
HydrateNext(s, c) ==
  IF c.scan = {} THEN Return(s, [c EXCEPT !.id = 0], Null, FALSE, FALSE)
  ELSE Continue(s, [c EXCEPT !.id = SetMin(c.scan), !.pc = "hydrateReadMetadata"])

\* A hydration that leaves a sidecar it cannot parse where it is.
HydrateAfterReadKeepsUnparsable(s, c, diskMetadata, t) ==
  IF IsNull(diskMetadata) THEN HydrateNext(s, [c EXCEPT !.scan = @ \ {c.id}])
  ELSE IF TheValue(diskMetadata).expiresAtUnixMs <= t THEN EnterDelete(s, c, c.id)
  ELSE Continue(s, [c EXCEPT !.stored = diskMetadata, !.pc = "hydrateStat"])

\* hydrateArtifactRegistryFromDisk once a sidecar has been read (lines
\* 309-320), at time t: a sidecar that gave no record is removed, an expired
\* one goes to deleteArtifact, the others have their backing file checked.
HydrateAfterRead(s, c, diskMetadata, t) ==
  IF IsNull(diskMetadata) THEN Continue(s, [c EXCEPT !.stored = Null, !.pc = "rmMetadata"])
  ELSE IF TheValue(diskMetadata).expiresAtUnixMs <= t THEN EnterDelete(s, c, c.id)
  ELSE Continue(s, [c EXCEPT !.stored = diskMetadata, !.pc = "hydrateStat"])

\* What follows a completed deleteArtifact in its caller.
AfterDelete(s, c) ==
  CASE c.op = "sweep" -> SweepDeleteNext(s, [c EXCEPT !.toDelete = @ \ {c.id}])
    [] c.op = "initialize" -> HydrateNext(s, [c EXCEPT !.scan = @ \ {c.id}])
    [] OTHER -> Return(s, c, Null, FALSE, FALSE)

\* A getArtifactIfAvailable that does not compare expiresAtUnixMs with the
\* clock.
GetAfterLookupIgnoresExpiry(s, c, found, source, t) ==
  IF IsNull(found) THEN Return(s, c, Null, FALSE, FALSE)
  ELSE Continue([s EXCEPT !.registry = Put(s.registry, c.id, TheValue(found))],
                [c EXCEPT !.stored = found, !.source = source, !.pc = "stat"])

\* A getArtifactIfAvailable that renews the time to live of what it finds.
GetAfterLookupExtendsTtl(s, c, found, source, t) ==
  IF IsNull(found) THEN Return(s, c, Null, FALSE, FALSE)
  ELSE LET storedArtifact == [TheValue(found) EXCEPT !.expiresAtUnixMs = t + artifactTtl]
           s1 == [s EXCEPT !.registry = Put(s.registry, c.id, storedArtifact)]
           c1 == [c EXCEPT !.stored = Some(storedArtifact), !.source = source]
       IN IF TheValue(found).expiresAtUnixMs <= t
            THEN EnterDelete(s1, c1, storedArtifact.artifactId)
            ELSE Continue(s1, [c1 EXCEPT !.pc = "stat"])

\* getArtifactIfAvailable once the record is found in memory or read from
\* the sidecar (lines 104-113), at time t.
GetAfterLookup(s, c, found, source, t) ==
  IF IsNull(found) THEN Return(s, c, Null, FALSE, FALSE)
  ELSE LET storedArtifact == TheValue(found)
           s1 == [s EXCEPT !.registry = Put(s.registry, c.id, storedArtifact)]
           c1 == [c EXCEPT !.stored = found, !.source = source]
       IN IF storedArtifact.expiresAtUnixMs <= t
            THEN EnterDelete(s1, c1, storedArtifact.artifactId)
            ELSE Continue(s1, [c1 EXCEPT !.pc = "stat"])

\* What the return of an operation adds to the log.
LogReturn(log, ret) ==
  [log EXCEPT
     !.created = IF ret.op = "create" /\ ~ret.raised
                   THEN Put(@, ret.id, TheValue(ret.result)) ELSE @,
     !.evictedByRead = IF ret.evicted /\ ret.op = "readBytes" THEN @ \cup {ret.id} ELSE @]

\* startCleanupTimer: setInterval is called unless a timer is already set.
startCleanupTimer(timer) == IF timer # 0 THEN timer ELSE timer + 1

\* The step of call c with outcome o takes effect; initialize() starts the
\* cleanup timer once hydration has returned.
Apply(c, o, log) ==
  /\ SetStore(o.store)
  /\ storeCalls' = (storeCalls \ {c})
                     \cup (IF IsNull(o.call) THEN {} ELSE {TheValue(o.call)})
  /\ lastReturn' = IF IsNull(o.ret) THEN NoReturn ELSE TheValue(o.ret)
  /\ storeLog' = IF IsNull(o.ret) THEN log ELSE LogReturn(log, TheValue(o.ret))
  /\ booted' = (booted \/ (~IsNull(o.ret) /\ TheValue(o.ret).op = "initialize"))
  /\ cleanupTimer' = IF ~IsNull(o.ret) /\ TheValue(o.ret).op = "initialize"
                       THEN startCleanupTimer(cleanupTimer) ELSE cleanupTimer

\* The expiry the registry or the sidecar on disk records for an artifact.
KnownExpiry(artifactIdentifier) ==
  (IF artifactIdentifier \in DOMAIN artifactRegistryById
     THEN {artifactRegistryById[artifactIdentifier].expiresAtUnixMs} ELSE {})
  \cup (IF /\ artifactIdentifier \in DOMAIN artifactSidecars
             /\ IsWellFormedMetadata(artifactSidecars[artifactIdentifier])
          THEN {artifactSidecars[artifactIdentifier].expiresAtUnixMs} ELSE {})

\* The current time is past the expiry recorded for the artifact.
KnownExpired(artifactIdentifier) ==
  /\ KnownExpiry(artifactIdentifier) # {}
  /\ \A e \in KnownExpiry(artifactIdentifier) : e < now

StoreFrame == UNCHANGED <<now, configVars, plyVars, sideVars, clientVars, uploads, jobVars, removedOutOfBand>>

CanCall == booted /\ Cardinality(storeCalls) < MaxCalls

\* registerSplatFeatures awaits initialize() before it registers any route.
CallInitialize ==
  /\ ~booted
  /\ storeCalls = {}
  /\ Apply(NoCall,
           Continue(Store, [NoCall EXCEPT
                              !.op = "initialize", !.pc = "readdir",
                              !.expiredAtStart =
                                {i \in DOMAIN artifactSidecars :
                                   /\ IsWellFormedMetadata(artifactSidecars[i])
                                   /\ artifactSidecars[i].expiresAtUnixMs <= now},
                              !.unparsableAtStart =
                                {i \in DOMAIN artifactSidecars :
                                   ~IsWellFormedMetadata(artifactSidecars[i])}]),
           storeLog)
  /\ UNCHANGED nextArtifactId
  /\ StoreFrame

\* createArtifactFromBytes is called: mkdir, randomUUID, writeFile issued.
CallCreate(mimeType) ==
  /\ CanCall
  /\ nextArtifactId \in ArtifactIds
  /\ Apply(NoCall,
           Continue(Store, [NoCall EXCEPT !.op = "create", !.pc = "writeFile",
                                          !.id = nextArtifactId,
                                          !.bytes = IF IsImageMimeType(mimeType)
                                                      THEN ImageBytes ELSE PlyGood,
                                          !.mimeType = mimeType]),
           storeLog)
  /\ nextArtifactId' = nextArtifactId + 1
  /\ StoreFrame

\* getArtifactIfAvailable is called with an identifier a create has handed
\* out; a registry hit runs on to its next await.
CallGet(artifactIdentifier) ==
  /\ CanCall
  /\ artifactIdentifier \in DOMAIN storeLog.created
  /\ LET c == [NoCall EXCEPT !.op = "get", !.id = artifactIdentifier,
                             !.expiredAtCall = KnownExpired(artifactIdentifier)]
     IN Apply(NoCall,
              IF artifactIdentifier \in DOMAIN artifactRegistryById
                THEN GetAfterLookup(Store, c, Some(artifactRegistryById[artifactIdentifier]),
                                    "memory", now)
                ELSE Continue(Store, [c EXCEPT !.pc = "getReadMetadata"]),
              storeLog)
  /\ UNCHANGED nextArtifactId
  /\ StoreFrame

\* readArtifactBytes is called: it starts with getArtifactIfAvailable.
CallReadBytes(artifactIdentifier) ==
  /\ CanCall
  /\ artifactIdentifier \in DOMAIN storeLog.created
  /\ LET c == [NoCall EXCEPT !.op = "readBytes", !.id = artifactIdentifier,
                             !.expiredAtCall = KnownExpired(artifactIdentifier)]
     IN Apply(NoCall,
              IF artifactIdentifier \in DOMAIN artifactRegistryById
                THEN GetAfterLookup(Store, c, Some(artifactRegistryById[artifactIdentifier]),
                                    "memory", now)
                ELSE Continue(Store, [c EXCEPT !.pc = "getReadMetadata"]),
              storeLog)
  /\ UNCHANGED nextArtifactId
  /\ StoreFrame

\* deleteArtifact is called by a user of the store for an identifier whose
\* createArtifactFromBytes has settled.
CallDelete(artifactIdentifier) ==
  /\ CanCall
  /\ artifactIdentifier < nextArtifactId
  /\ \A c \in storeCalls : ~(c.op = "create" /\ c.id = artifactIdentifier)
  /\ Apply(NoCall,
           EnterDelete(Store, [NoCall EXCEPT !.op = "delete",
                                             !.before = PartsOf(Store, artifactIdentifier)],
                       artifactIdentifier),
           storeLog)
  /\ UNCHANGED nextArtifactId
  /\ StoreFrame

\* The cleanup timer fires: deleteExpiredArtifacts up to its readdir.  The
\* timer is the only caller and fires every CLEANUP_INTERVAL_MILLISECONDS
\* (60 s), so a pass has finished its file operations before the next begins.
CallSweep ==
  /\ CanCall
  /\ cleanupTimer # 0
  /\ \A c \in storeCalls : c.op # "sweep"
  /\ LET fromRegistry == {i \in DOMAIN artifactRegistryById :
                            artifactRegistryById[i].expiresAtUnixMs <= now}
     IN Apply(NoCall,
              Continue(Store, [NoCall EXCEPT
                                 !.op = "sweep", !.pc = "readdir", !.calledAt = now,
                                 !.toDelete = fromRegistry, !.fromRegistry = fromRegistry,
                                 !.expiredAtStart =
                                   {i \in ArtifactIds :
                                      /\ KnownExpiry(i) # {}
                                      /\ \A e \in KnownExpiry(i) : e <= now
                                      /\ \A c \in storeCalls :
                                           ~(c.op = "create" /\ c.id = i)}]),
              storeLog)
  /\ UNCHANGED nextArtifactId
  /\ StoreFrame

\* readArtifactDirectoryFileNames settles: the sidecar files now present.
\* A sweep that marks every sidecar it finds in the directory, expired or not.
StepReaddirMarksAll(c) ==
  /\ c.pc = "readdir"
  /\ Apply(c,
           IF c.op = "initialize"
             THEN HydrateNext(Store, [c EXCEPT !.scan = DOMAIN artifactSidecars])
             ELSE SweepScanNext(Store, [c EXCEPT !.scan = {},
                                                 !.toDelete = @ \cup DOMAIN artifactSidecars]),
           storeLog)
  /\ UNCHANGED nextArtifactId
  /\ StoreFrame

StepReaddir(c) ==
  /\ c.pc = "readdir"
  /\ Apply(c,
           IF c.op = "initialize"
             THEN HydrateNext(Store, [c EXCEPT !.scan = DOMAIN artifactSidecars])
             ELSE SweepScanNext(Store, [c EXCEPT !.scan = DOMAIN artifactSidecars \ c.toDelete]),
           storeLog)
  /\ UNCHANGED nextArtifactId
  /\ StoreFrame

\* readArtifactMetadataFromDisk settles, in each of its four callers.
StepReadMetadata(c) ==
  /\ c.pc \in {"getReadMetadata", "deleteReadMetadata", "sweepReadMetadata",
               "hydrateReadMetadata"}
  /\ LET diskMetadata == readArtifactMetadataFromDisk(Store, c.id)
         evicted == [Store EXCEPT !.registry = Remove(Store.registry, c.id)]
         expired == /\ ~IsNull(diskMetadata)
                    /\ TheValue(diskMetadata).expiresAtUnixMs <= c.calledAt
         scanned == [c EXCEPT !.scan = @ \ {c.id},
                              !.toDelete = IF expired THEN @ \cup {c.id} ELSE @,
                              !.fromDisk = IF expired THEN @ \cup {c.id} ELSE @]
     IN Apply(c,
              CASE c.pc = "getReadMetadata" ->
                     GetAfterLookup(Store, c, diskMetadata, "sidecar", now)
                [] c.pc = "deleteReadMetadata" ->
                     IF IsNull(diskMetadata)
                       THEN Continue(evicted, [c EXCEPT !.pc = "rmMetadata"])
                       ELSE Continue(evicted, [c EXCEPT !.stored = diskMetadata,
                                                        !.pc = "rmFile"])
                [] c.pc = "sweepReadMetadata" -> SweepScanNext(Store, scanned)
                [] OTHER -> HydrateAfterRead(Store, c, diskMetadata, now),
              storeLog)
  /\ UNCHANGED nextArtifactId
  /\ StoreFrame

\* A getArtifactIfAvailable that returns the record without looking at the
\* outcome of stat.
StepStatTrustsRecord(c) ==
  /\ c.pc \in {"stat", "hydrateStat"}
  /\ Apply(c,
           CASE c.pc = "hydrateStat" ->
                  HydrateNext([Store EXCEPT !.registry = Put(Store.registry, c.id,
                                                            TheValue(c.stored))],
                              [c EXCEPT !.scan = @ \ {c.id}])
             [] c.op = "readBytes" -> Continue(Store, [c EXCEPT !.pc = "readFile"])
             [] OTHER -> Return(Store, c, c.stored, FALSE, FALSE),
           storeLog)
  /\ UNCHANGED nextArtifactId
  /\ StoreFrame

\* stat(absoluteFilePath) settles, in getArtifactIfAvailable and in
\* hydrateArtifactRegistryFromDisk.
StepStat(c) ==
  /\ c.pc \in {"stat", "hydrateStat"}
  /\ LET storedArtifact == TheValue(c.stored)
         exists == storedArtifact.absoluteFilePath \in DOMAIN artifactFiles
         evicted == [Store EXCEPT !.registry = Remove(Store.registry, storedArtifact.artifactId)]
         hydrated == [Store EXCEPT !.registry = Put(Store.registry, c.id, storedArtifact)]
     IN Apply(c,
              CASE c.pc = "hydrateStat" ->
                     IF exists THEN HydrateNext(hydrated, [c EXCEPT !.scan = @ \ {c.id}])
                     ELSE EnterDelete(Store, c, c.id)
                [] ~exists -> Return(evicted, c, Null, FALSE, TRUE)
                [] c.op = "readBytes" -> Continue(Store, [c EXCEPT !.pc = "readFile"])
                [] OTHER -> Return(Store, c, c.stored, FALSE, FALSE),
              storeLog)
  /\ UNCHANGED nextArtifactId
  /\ StoreFrame

\* A readArtifactBytes that rethrows every error of readFile, ENOENT too.
StepReadFileRethrowsMissing(c, readFails) ==
  /\ c.pc = "readFile"
  /\ LET path == TheValue(c.stored).absoluteFilePath
     IN Apply(c,
              IF path \notin DOMAIN artifactFiles \/ readFails
                THEN Return(Store, c, Null, TRUE, FALSE)
              ELSE Return(Store, c, Some(artifactFiles[path]), FALSE, FALSE),
              storeLog)
  /\ UNCHANGED nextArtifactId
  /\ StoreFrame

\* readFile(absoluteFilePath) of readArtifactBytes settles.  readFails: an
\* error other than ENOENT.
StepReadFile(c, readFails) ==
  /\ c.pc = "readFile"
  /\ LET path == TheValue(c.stored).absoluteFilePath
     IN Apply(c,
              IF path \notin DOMAIN artifactFiles
                THEN Return([Store EXCEPT !.registry = Remove(Store.registry, c.id)],
                            c, Null, FALSE, TRUE)
              ELSE IF readFails THEN Return(Store, c, Null, TRUE, FALSE)
              ELSE Return(Store, c, Some(artifactFiles[path]), FALSE, FALSE),
              storeLog)
  /\ UNCHANGED nextArtifactId
  /\ StoreFrame

\* writeFile(artifactFilePath, artifactBytes) of createArtifactFromBytes
\* settles; on success the record is built and registered (lines 79-90).
StepWriteFile(c, outcome) ==
  /\ c.pc = "writeFile"
  /\ LET written == createArtifactFromBytes(Store, c.id, c.bytes, c.mimeType,
                                            DisplayNameFor(c.mimeType), artifactTtl, now,
                                            "metadataWriteFails")
         complete == createArtifactFromBytes(Store, c.id, c.bytes, c.mimeType,
                                             DisplayNameFor(c.mimeType), artifactTtl, now,
                                             "ok")
     IN Apply(c,
              IF outcome = "writeFileFails" THEN Return(Store, c, Null, TRUE, FALSE)
              ELSE Continue(written.store, [c EXCEPT !.stored = complete.result,
                                                     !.pc = "writeMetadata"]),
              storeLog)
  /\ UNCHANGED nextArtifactId
  /\ StoreFrame

\* writeArtifactMetadataToDisk of createArtifactFromBytes settles.
StepWriteMetadata(c, outcome) ==
  /\ c.pc = "writeMetadata"
  /\ Apply(c,
           IF outcome = "metadataWriteFails" THEN Return(Store, c, Null, TRUE, FALSE)
           ELSE Return([Store EXCEPT !.meta = Put(Store.meta, c.id,
                                                  writeArtifactMetadataToDisk(TheValue(c.stored)))],
                       c, c.stored, FALSE, FALSE),
           storeLog)
  /\ UNCHANGED nextArtifactId
  /\ StoreFrame

\* rm(storedArtifact.absoluteFilePath, {force}) of deleteArtifact settles.
StepRmFile(c) ==
  /\ c.pc = "rmFile"
  /\ Apply(c,
           Continue([Store EXCEPT !.files = Remove(Store.files,
                                                   TheValue(c.stored).absoluteFilePath)],
                    [c EXCEPT !.pc = "rmMetadata"]),
           storeLog)
  /\ UNCHANGED nextArtifactId
  /\ StoreFrame

\* rm(metadata file, {force}) of deleteArtifact settles and deleteArtifact
\* returns to its caller.
StepRmMetadata(c) ==
  /\ c.pc = "rmMetadata"
  /\ Apply(c, AfterDelete([Store EXCEPT !.meta = Remove(Store.meta, c.id)], c), storeLog)
  /\ UNCHANGED nextArtifactId
  /\ StoreFrame

\* The process stops with no store operation in flight and a new one starts:
\* the registry is empty and nothing is served until initialize() has returned.
Restart ==
  /\ booted
  /\ storeCalls = {}
  /\ ~storeLog.restarted
  /\ booted' = FALSE
  /\ cleanupTimer' = 0
  /\ artifactRegistryById' = EmptyMap
  /\ storeLog' = [storeLog EXCEPT !.survivedRestart = DOMAIN storeLog.created,
                                  !.restarted = TRUE]
  /\ UNCHANGED <<artifactFiles, artifactSidecars, storeCalls, lastReturn, nextArtifactId>>
  /\ StoreFrame

\* Another instance of the server that shares the artifact directory runs
\* createArtifactFromBytes to its end: the file and the sidecar appear on
\* disk, and this instance's registry knows nothing of them.
AnotherInstanceCreates(mimeType) ==
  /\ nextArtifactId \in ArtifactIds
  /\ LET created == createArtifactFromBytes(
                      Store, nextArtifactId,
                      IF IsImageMimeType(mimeType) THEN ImageBytes ELSE PlyGood,
                      mimeType, DisplayNameFor(mimeType), artifactTtl, now, "ok")
     IN /\ artifactFiles' = created.store.files
        /\ artifactSidecars' = created.store.meta
        /\ storeLog' = [storeLog EXCEPT !.created = Put(@, nextArtifactId,
                                                        TheValue(created.result))]
  /\ nextArtifactId' = nextArtifactId + 1
  /\ UNCHANGED <<artifactRegistryById, storeCalls, booted, cleanupTimer, lastReturn>>
  /\ StoreFrame

\* ------------------------------------------------ the validator's inputs
InsertableLines ==
  {LongCommentLine, FaceElementLine, VertexElementLine, AsciiFormatLine, EndHeaderLine,
   PropertyLine("f_dc_0"), PropertyLine("rot_3")}

PlyFrame ==
  UNCHANGED <<now, configVars, sideVars, clientVars, callVars, storeVars, nextArtifactId, uploads,
              jobVars, removedOutOfBand>>

\* The file handed to the validator differs from a good one by a line put in.
InsertHeaderLine(i, line) ==
  /\ plyEdits < MaxEdits
  /\ i \in 1..(Len(plyHeader) + 1)
  /\ plyHeader' = SubSeq(plyHeader, 1, i - 1) \o <<line>> \o SubSeq(plyHeader, i, Len(plyHeader))
  /\ plyEdits' = plyEdits + 1
  /\ plyOutcome' = NotValidated
  /\ PlyFrame

\* ... by a line left out.
RemoveHeaderLine(i) ==
  /\ plyEdits < MaxEdits
  /\ i \in 1..Len(plyHeader)
  /\ plyHeader' = SubSeq(plyHeader, 1, i - 1) \o SubSeq(plyHeader, i + 1, Len(plyHeader))
  /\ plyEdits' = plyEdits + 1
  /\ plyOutcome' = NotValidated
  /\ PlyFrame

\* ... by being cut short after n lines.
TruncateHeader(n) ==
  /\ plyEdits < MaxEdits
  /\ n \in 0..(Len(plyHeader) - 1)
  /\ plyHeader' = SubSeq(plyHeader, 1, n)
  /\ plyEdits' = plyEdits + 1
  /\ plyOutcome' = NotValidated
  /\ PlyFrame

\* validateLikelyGaussianSplatPly(plyBytes) is called and returns or throws.
Validate ==
  /\ ~plyOutcome.validated
  /\ plyOutcome' = ValidationOutcome(plyHeader)
  /\ UNCHANGED <<plyHeader, plyEdits>>
  /\ PlyFrame

PlyNext ==
  \/ \E i \in 1..(Len(GoodHeader) + MaxEdits), line \in InsertableLines : InsertHeaderLine(i, line)
  \/ \E i \in 1..(Len(GoodHeader) + MaxEdits) : RemoveHeaderLine(i)
  \/ \E n \in 0..(Len(GoodHeader) + MaxEdits) : TruncateHeader(n)
  \/ Validate

PlySpec == Init /\ [][PlyNext]_vars

\* ------------------------------------------------ the client's process
\* Everything of the server but the Modal client and the widgets.
ServerFrame ==
  UNCHANGED <<now, configVars, plyVars, clientVars, callVars, storeVars, nextArtifactId, uploads,
              jobVars, removedOutOfBand>>

\* The server process starts with the two timeout settings given: the module
\* constructs its ModalInferenceClient, which resolves the timeout once.
StartProcess(millisecondsSetting, secondsSetting) ==
  /\ environment' = [SHARP_MODAL_TIMEOUT_MS |-> millisecondsSetting,
                     SHARP_MODAL_TIMEOUT_SECONDS |-> secondsSetting]
  /\ timeoutMilliseconds' = resolveTimeoutMilliseconds(environment')
  /\ ServerFrame
  /\ UNCHANGED <<ingestVars, peripheralVars>>

TimeoutNext ==
  \E millisecondsSetting \in TimeoutSettings, secondsSetting \in TimeoutSettings :
    StartProcess(millisecondsSetting, secondsSetting)

TimeoutSpec == Init /\ [][TimeoutNext]_vars

\* A sweep in flight together with any one other operation of the store.
SweepRaceNext ==
  \/ Tick
  \/ \E mimeType \in {"image/jpeg"} : CallCreate(mimeType)
  \/ \E artifactIdentifier \in ArtifactIds : CallGet(artifactIdentifier)
  \/ \E artifactIdentifier \in ArtifactIds : CallReadBytes(artifactIdentifier)
  \/ \E artifactIdentifier \in ArtifactIds : CallDelete(artifactIdentifier)
  \/ CallSweep
  \/ \E c \in storeCalls : StepReaddir(c)
  \/ \E c \in storeCalls : StepReadMetadata(c)
  \/ \E c \in storeCalls : StepStat(c)
  \/ \E c \in storeCalls, readFails \in BOOLEAN : StepReadFile(c, readFails)
  \/ \E c \in storeCalls, outcome \in {"ok", "writeFileFails"} : StepWriteFile(c, outcome)
  \/ \E c \in storeCalls, outcome \in {"ok", "metadataWriteFails"} : StepWriteMetadata(c, outcome)
  \/ \E c \in storeCalls : StepRmFile(c)
  \/ \E c \in storeCalls : StepRmMetadata(c)

SweepRaceSpec == Init /\ [][SweepRaceNext]_vars

\* ------------------------------------------- calls of the player
WidgetFrame ==
  /\ ServerFrame
  /\ UNCHANGED <<timeoutVars, ingestVars, pollVars, timerVars>>

\* Time passes in the browser.
AdvanceClock(d) ==
  /\ playerClock + d <= MaxPlayerTime
  /\ playerClock' = playerClock + d
  /\ UNCHANGED <<player, viewer, lastPlayerCall>>
  /\ WidgetFrame

\* A method of the TrajectoryPlayer is called, no callback registered.
PlayerCall(method, called) ==
  /\ player' = called.player
  /\ lastPlayerCall' = method
  /\ UNCHANGED <<viewer, playerClock>>
  /\ WidgetFrame

SetTrajectory(positionsLength) == PlayerCall("setTrajectory", setTrajectory(player, positionsLength))
Play == PlayerCall("play", play(player, playerClock))
Pause == PlayerCall("pause", pause(player))
Stop == PlayerCall("stop", stop(player))
Reset == PlayerCall("reset", reset(player, playerClock))
SetFrame(frame) == PlayerCall("setFrame", setFrame(player, frame))
Update == PlayerCall("update", update(player, playerClock))

PlayerNext ==
  \/ \E d \in {20, 40} : AdvanceClock(d)
  \/ \E positionsLength \in 0..MaxFrames : SetTrajectory(positionsLength)
  \/ Play
  \/ Pause
  \/ Stop
  \/ Reset
  \/ \E frame \in -1..MaxFrames : SetFrame(frame)
  \/ Update

PlayerSpec == Init /\ [][PlayerNext]_vars

\* ------------------------------------------- calls of the viewer
\* A call of the viewer: the viewer's own assignments give v, the call it
\* makes of its player gives called, and the player's notifications reach
\* the viewer's onStateChange before the call returns.
ViewerCall(method, v, called) ==
  /\ player' = called.player
  /\ viewer' = onStateChange(v, called.notified)
  /\ lastPlayerCall' = method
  /\ UNCHANGED playerClock
  /\ WidgetFrame

generateTrajectory(v) ==
  setTrajectory(player, createEyeTrajectoryLength(v.type, v.numSteps, v.numRepeats))

\* loadPly up to its first await: the previous mesh is removed.
LoadPlyStarts ==
  /\ viewer.load \notin {"reading", "initializing"}
  /\ viewer' = [viewer EXCEPT !.splatMesh = FALSE, !.load = "reading"]
  /\ UNCHANGED <<player, playerClock, lastPlayerCall>>
  /\ WidgetFrame

\* The file is read: the new mesh is created and its initialisation awaited.
LoadPlyCreatesMesh ==
  /\ viewer.load = "reading"
  /\ viewer' = [viewer EXCEPT !.splatMesh = TRUE, !.load = "initializing"]
  /\ UNCHANGED <<player, playerClock, lastPlayerCall>>
  /\ WidgetFrame

\* The mesh is initialised: the first trajectory is generated, onLoad called.
LoadPlyCompletes ==
  /\ viewer.load = "initializing"
  /\ ViewerCall("setTrajectory", [viewer EXCEPT !.load = "loaded"], generateTrajectory(viewer))

\* Reading, parsing or initialising throws: onError is called.
LoadPlyFails ==
  /\ viewer.load \in {"reading", "initializing"}
  /\ viewer' = [viewer EXCEPT !.load = "failed"]
  /\ UNCHANGED <<player, playerClock, lastPlayerCall>>
  /\ WidgetFrame

ViewerPlay ==
  IF ~viewer.splatMesh
    THEN ViewerCall(lastPlayerCall, viewer, Called(player, <<>>))
    ELSE ViewerCall("play", [viewer EXCEPT !.controlsEnabled = FALSE], play(player, playerClock))

ViewerPause ==
  LET called == pause(player) IN
  /\ player' = called.player
  /\ viewer' = [onStateChange(viewer, called.notified) EXCEPT !.controlsEnabled = TRUE]
  /\ lastPlayerCall' = "pause"
  /\ UNCHANGED playerClock
  /\ WidgetFrame

ViewerStop ==
  LET called == stop(player) IN
  /\ player' = called.player
  /\ viewer' = [onStateChange(viewer, called.notified) EXCEPT !.controlsEnabled = TRUE]
  /\ lastPlayerCall' = "stop"
  /\ UNCHANGED playerClock
  /\ WidgetFrame

ViewerReset == ViewerCall("reset", viewer, reset(player, playerClock))

SetTrajectoryType(type) ==
  LET v == [viewer EXCEPT !.type = type] IN
  ViewerCall("setTrajectory", v, generateTrajectory(v))

UpdateTrajectoryParam(key, value) ==
  LET v == [viewer EXCEPT ![key] = value] IN
  IF viewer.splatMesh
    THEN ViewerCall("setTrajectory", v, generateTrajectory(v))
    ELSE ViewerCall(lastPlayerCall, v, Called(player, <<>>))

\* One animation frame: the player is updated only while it is playing.
Animate ==
  IF player.state = "playing"
    THEN ViewerCall("update", viewer, update(player, playerClock))
    ELSE ViewerCall(lastPlayerCall, viewer, Called(player, <<>>))

ViewerNext ==
  \/ \E d \in {20, 40} : AdvanceClock(d)
  \/ LoadPlyStarts
  \/ LoadPlyCreatesMesh
  \/ LoadPlyCompletes
  \/ LoadPlyFails
  \/ ViewerPlay
  \/ ViewerPause
  \/ ViewerStop
  \/ ViewerReset
  \/ \E type \in TrajectoryTypes : SetTrajectoryType(type)
  \/ \E key \in {"numSteps", "numRepeats"}, value \in 0..MaxParam : UpdateTrajectoryParam(key, value)
  \/ Animate

ViewerSpec == Init /\ [][ViewerNext]_vars

\* ------------------------------------------------ Modal client calls
\* The deployment sets SHARP_MODAL_ENDPOINT_URL.
ConfigureEndpoint(setting) ==
  /\ modalCall.pc \in {"idle", "settled"}
  /\ modalEndpointUrlSetting' = setting
  /\ UNCHANGED <<modalCall, pendingTimers>>
  /\ ServerFrame
  /\ UNCHANGED <<timeoutVars, ingestVars, pollVars, playerVars>>

\* generateSplatFromImage is called: it arms the timeout timer, then resolves
\* the endpoint URL, which throws out of the call when the URL is missing or
\* invalid, and otherwise enters the try block and awaits the fetch.
CallGenerateSplat ==
  /\ modalCall.pc \in {"idle", "settled"}
  /\ modalCall.n < MaxCalls
  /\ pendingTimers' = pendingTimers \cup {modalCall.n + 1}
  /\ modalCall' =
       IF IsNull(resolveModalEndpointUrlFromEnvironment(modalEndpointUrlSetting))
         THEN [n |-> modalCall.n + 1, pc |-> "settled", aborted |-> FALSE, threw |-> TRUE]
         ELSE [n |-> modalCall.n + 1, pc |-> "fetch", aborted |-> FALSE, threw |-> FALSE]
  /\ UNCHANGED modalEndpointUrlSetting
  /\ ServerFrame
  /\ UNCHANGED <<timeoutVars, ingestVars, pollVars, playerVars>>

\* An armed timer fires: it aborts the request of its call.
TimeoutTimerFires(n) ==
  /\ n \in pendingTimers
  /\ pendingTimers' = pendingTimers \ {n}
  /\ modalCall' = IF n = modalCall.n /\ modalCall.pc = "fetch"
                    THEN [modalCall EXCEPT !.aborted = TRUE] ELSE modalCall
  /\ UNCHANGED modalEndpointUrlSetting
  /\ ServerFrame
  /\ UNCHANGED <<timeoutVars, ingestVars, pollVars, playerVars>>

\* The fetch and the reading of the body settle, the call returns or throws
\* from inside the try block, and the finally block clears the timer.
FetchSettled(response) ==
  /\ modalCall.pc = "fetch"
  /\ response.kind = "timeout" <=> modalCall.aborted
  /\ modalCall' = [modalCall EXCEPT !.pc = "settled",
                                    !.threw = ~IsNull(generateSplatFromImage(response).error)]
  /\ pendingTimers' = pendingTimers \ {modalCall.n}
  /\ UNCHANGED modalEndpointUrlSetting
  /\ ServerFrame
  /\ UNCHANGED <<timeoutVars, ingestVars, pollVars, playerVars>>

ModalClientNext ==
  \/ \E millisecondsSetting \in TimeoutSettings, secondsSetting \in TimeoutSettings :
       modalCall.pc = "idle" /\ StartProcess(millisecondsSetting, secondsSetting)
  \/ \E setting \in EndpointUrlSettings : ConfigureEndpoint(setting)
  \/ CallGenerateSplat
  \/ \E n \in 1..MaxCalls : TimeoutTimerFires(n)
  \/ \E response \in BackendResponses : FetchSettled(response)

ModalClientSpec == Init /\ [][ModalClientNext]_vars

\* ------------------------------------------------- the polling widget
\* waitForImageGenerationJobCompletion is called: the loop starts at index 0
\* and issues its first fetch.
StartPolling ==
  /\ pollState = "idle"
  /\ pollState' = "fetch"
  /\ pollingAttemptIndex' = 0
  /\ pollsIssued' = 1
  /\ UNCHANGED <<lastPollAnswer, pollOutcome>>
  /\ ServerFrame
  /\ UNCHANGED <<timeoutVars, ingestVars, timerVars, playerVars>>

\* The fetch and the reading of its body settle.
PollAnswered(answer) ==
  /\ pollState = "fetch"
  /\ lastPollAnswer' = Some(answer)
  /\ pollOutcome' = handlePollAnswer(answer)
  /\ pollState' = IF pollOutcome' = Polling THEN "delay" ELSE "settled"
  /\ UNCHANGED <<pollingAttemptIndex, pollsIssued>>
  /\ ServerFrame
  /\ UNCHANGED <<timeoutVars, ingestVars, timerVars, playerVars>>

\* The delay of 2000 ms elapses: the index is incremented and tested.
DelayElapsed ==
  /\ pollState = "delay"
  /\ pollingAttemptIndex' = pollingAttemptIndex + 1
  /\ IF pollingAttemptIndex' < maximumPollingAttempts
       THEN /\ pollState' = "fetch"
            /\ pollsIssued' = pollsIssued + 1
            /\ UNCHANGED pollOutcome
       ELSE /\ pollState' = "settled"
            /\ pollOutcome' = [kind |-> "threw",
                               message |-> Some("Image generation timed out while polling job status.")]
            /\ UNCHANGED pollsIssued
  /\ UNCHANGED lastPollAnswer
  /\ ServerFrame
  /\ UNCHANGED <<timeoutVars, ingestVars, timerVars, playerVars>>

PollNext ==
  \/ StartPolling
  \/ \E answer \in PollAnswers : PollAnswered(answer)
  \/ DelayElapsed

\* Every fetch of the status endpoint settles and every delay timer fires.
PollSpec == Init /\ [][PollNext]_vars /\ WF_vars(PollNext)

\* ------------------------------------------- callers that store bytes
IngestFrame ==
  UNCHANGED <<now, configVars, plyVars, timeoutVars, peripheralVars, clientVars, callVars,
              jobVars, removedOutOfBand>>

\* A caller's createArtifactFromBytes(bytes, fileExtension, mimeType, displayName).
CallerCreates(bytes, fileExtension, mimeType, displayName, outcome) ==
  /\ uploads' = uploads + 1
  /\ SetStore(createArtifactFromBytes(Store, nextArtifactId, bytes, mimeType, displayName,
                                      artifactTtl, now, outcome).store)
  /\ createdWithExtension' = Put(createdWithExtension, nextArtifactId, fileExtension)
  /\ nextArtifactId' = nextArtifactId + 1

\* POST /uploads/asset (and /uploads/ply, the same handler).
UploadAsset(request, outcome) ==
  /\ lastUpload = NoUpload
  /\ uploads < MaxUploads
  /\ LET handled == handleUploadRequest(request)
         arguments == TheValue(handled.create)
     IN IF IsNull(handled.create)
          THEN /\ lastUpload' = [request |-> Some(request), status |-> handled.status,
                                 artifactId |-> Null]
               /\ UNCHANGED <<storeVars, nextArtifactId, uploads, createdWithExtension>>
          ELSE /\ CallerCreates(arguments.bytes, arguments.fileExtension, arguments.mimeType,
                                arguments.displayName, outcome)
               /\ lastUpload' = IF outcome = "ok"
                                  THEN [request |-> Some(request), status |-> 200,
                                        artifactId |-> Some(nextArtifactId)]
                                  ELSE [request |-> Some(request), status |-> 400,
                                        artifactId |-> Null]
  /\ IngestFrame

\* The view-ply-splat tool: resolvePlyInputBytes, then the store.
ViewPlySplat(download, outcome) ==
  /\ uploads < MaxUploads
  /\ LET resolvedInputBytes == resolvePlyInputBytes(download)
     IN IF IsNull(resolvedInputBytes)
          THEN UNCHANGED <<storeVars, nextArtifactId, uploads, createdWithExtension>>
          ELSE CallerCreates(TheValue(resolvedInputBytes), ".ply", "application/octet-stream",
                             "uploaded.ply", outcome)
  /\ UNCHANGED lastUpload
  /\ IngestFrame

\* The generate-splat-from-image tool: the source image is resolved, the
\* endpoint answers, the answer is validated and stored.
GenerateSplatFromImageTool(sourceResolved, response, outcome) ==
  /\ uploads < MaxUploads
  /\ LET generatedSplatResult == generateSplatFromImage(response)
     IN IF \/ ~sourceResolved
           \/ ~IsNull(generatedSplatResult.error)
           \/ ~IsNull(validateLikelyGaussianSplatPly(TheValue(generatedSplatResult.plyBytes)))
          THEN UNCHANGED <<storeVars, nextArtifactId, uploads, createdWithExtension>>
          ELSE CallerCreates(TheValue(generatedSplatResult.plyBytes), ".ply",
                             "application/octet-stream", "generated.ply", outcome)
  /\ UNCHANGED lastUpload
  /\ IngestFrame

IngestNext ==
  \/ \E request \in UploadRequests, outcome \in CreateOutcomes : UploadAsset(request, outcome)
  \/ \E download \in PlyDownloads, outcome \in CreateOutcomes : ViewPlySplat(download, outcome)
  \/ \E sourceResolved \in BOOLEAN, response \in BackendResponses, outcome \in CreateOutcomes :
       GenerateSplatFromImageTool(sourceResolved, response, outcome)
  \/ \E artifactIdentifier \in ArtifactIds, jobTtl \in 1..MaxTtl, mcpUrl \in PublicBaseUrls :
       Start(artifactIdentifier, jobTtl, mcpUrl)
  \/ \E jobId \in JobIds : RunGetSource(jobId)
  \/ \E jobId \in JobIds, readFails \in BOOLEAN, modalEndpointConfigured \in BOOLEAN :
       RunReadBytes(jobId, readFails, modalEndpointConfigured)
  \/ \E jobId \in JobIds, response \in BackendResponses : RunBackendResponse(jobId, response)
  \/ \E jobId \in JobIds, outcome \in CreateOutcomes, mcpUrl \in PublicBaseUrls :
       RunPersist(jobId, outcome, mcpUrl)

IngestSpec == Init /\ [][IngestNext]_vars

\* A sidecar is left on disk without the fields of a record (a write cut
\* short, a file written by something else).
DamageSidecar(artifactIdentifier) ==
  /\ artifactIdentifier \in DOMAIN artifactSidecars
  /\ IsWellFormedMetadata(artifactSidecars[artifactIdentifier])
  /\ artifactSidecars' = [artifactSidecars EXCEPT
                            ![artifactIdentifier] = [artifactId |-> artifactIdentifier]]
  /\ UNCHANGED <<artifactRegistryById, artifactFiles, nextArtifactId, callVars>>
  /\ StoreFrame

\* The store under one caller at a time: each operation is called when no
\* other is in flight, and the clock, the other instance, the deletion of
\* files behind the store's back and restarts happen between its awaits.
StoreNext ==
  \/ Tick
  \/ \E artifactIdentifier \in ArtifactIds : RemoveFileOutOfBand(artifactIdentifier)
  \/ Restart
  \/ \E mimeType \in {"application/octet-stream"} : AnotherInstanceCreates(mimeType)
  \/ CallInitialize
  \/ storeCalls = {} /\ \E mimeType \in {"image/jpeg"} : CallCreate(mimeType)
  \/ storeCalls = {} /\ \E artifactIdentifier \in ArtifactIds : CallGet(artifactIdentifier)
  \/ storeCalls = {} /\ \E artifactIdentifier \in ArtifactIds : CallReadBytes(artifactIdentifier)
  \/ storeCalls = {} /\ \E artifactIdentifier \in ArtifactIds : CallDelete(artifactIdentifier)
  \/ storeCalls = {} /\ CallSweep
  \/ \E c \in storeCalls : StepReaddir(c)
  \/ \E c \in storeCalls : StepReadMetadata(c)
  \/ \E c \in storeCalls : StepStat(c)
  \/ \E c \in storeCalls, readFails \in BOOLEAN : StepReadFile(c, readFails)
  \/ \E c \in storeCalls, outcome \in {"ok", "writeFileFails"} : StepWriteFile(c, outcome)
  \/ \E c \in storeCalls, outcome \in {"ok", "metadataWriteFails"} : StepWriteMetadata(c, outcome)
  \/ \E c \in storeCalls : StepRmFile(c)
  \/ \E c \in storeCalls : StepRmMetadata(c)

StoreSpec == Init /\ [][StoreNext]_vars

\* The store under concurrent callers: up to MaxCalls of create, get and the
\* sweep of the cleanup timer are in flight at once and their awaits
\* interleave, while the clock advances and the other instance creates.
ConcurrentStoreNext ==
  \/ Tick
  \/ \E mimeType \in {"application/octet-stream"} : AnotherInstanceCreates(mimeType)
  \/ \E mimeType \in {"image/jpeg"} : CallCreate(mimeType)
  \/ \E artifactIdentifier \in ArtifactIds : CallGet(artifactIdentifier)
  \/ CallSweep
  \/ \E c \in storeCalls : StepReaddir(c)
  \/ \E c \in storeCalls : StepReadMetadata(c)
  \/ \E c \in storeCalls : StepStat(c)
  \/ \E c \in storeCalls, outcome \in {"ok", "writeFileFails"} : StepWriteFile(c, outcome)
  \/ \E c \in storeCalls, outcome \in {"ok", "metadataWriteFails"} : StepWriteMetadata(c, outcome)
  \/ \E c \in storeCalls : StepRmFile(c)
  \/ \E c \in storeCalls : StepRmMetadata(c)

ConcurrentStoreSpec == Init /\ [][ConcurrentStoreNext]_vars

\* Start-up of the store: artifacts are created by this process and by
\* another instance, time passes, files are removed and sidecars damaged
\* while no operation runs, the process restarts and initialize() runs to
\* its end before anything else is served.
InitializeNext ==
  \/ storeCalls = {} /\ Tick
  \/ storeCalls = {} /\ \E artifactIdentifier \in ArtifactIds : RemoveFileOutOfBand(artifactIdentifier)
  \/ storeCalls = {} /\ \E artifactIdentifier \in ArtifactIds : DamageSidecar(artifactIdentifier)
  \/ storeCalls = {} /\ \E mimeType \in MimeTypes : AnotherInstanceCreates(mimeType)
  \/ Restart
  \/ CallInitialize
  \/ storeCalls = {} /\ \E mimeType \in MimeTypes : CallCreate(mimeType)
  \/ \E c \in storeCalls : StepReaddir(c)
  \/ \E c \in storeCalls : StepReadMetadata(c)
  \/ \E c \in storeCalls : StepStat(c)
  \/ \E c \in storeCalls, outcome \in {"ok", "writeFileFails"} : StepWriteFile(c, outcome)
  \/ \E c \in storeCalls, outcome \in {"ok", "metadataWriteFails"} : StepWriteMetadata(c, outcome)
  \/ \E c \in storeCalls : StepRmFile(c)
  \/ \E c \in storeCalls : StepRmMetadata(c)

InitializeSpec == Init /\ [][InitializeNext]_vars

\* ================================================================ claims
IsPrefix(s, t) == Len(s) <= Len(t) /\ \A i \in 1..Len(s) : s[i] = t[i]
Last(s) == s[Len(s)]
Jobs == imageGenerationJobsById

\* C1: the statuses written into the index for a job follow
\* queued -> running -> succeeded or queued -> running -> failed and nothing
\* else (no write after a terminal status, no queued -> terminal, no
\* running -> queued), and the status of a job in the index is the last one
\* written.
C1_StatusStateMachine ==
  \A j \in JobIds :
    /\ \/ IsPrefix(statusHistory[j], <<"queued", "running", "succeeded">>)
       \/ IsPrefix(statusHistory[j], <<"queued", "running", "failed">>)
    /\ j \in DOMAIN Jobs =>
         /\ Len(statusHistory[j]) > 0
         /\ Jobs[j].status = Last(statusHistory[j])

\* A job went queued -> running -> succeeded and a get has read it since.
C1_Witness ==
  \E j \in DOMAIN Jobs :
    /\ statusHistory[j] = <<"queued", "running", "succeeded">>
    /\ lastGet.jobId = j
    /\ ~IsNull(lastGet.result)
    /\ TheValue(lastGet.result).status = "succeeded"

\* C2: the run of a job is launched exactly once, when start inserts it, the
\* Modal endpoint is called at most once for it, and a run that has ended is
\* never resumed.
C2_AtMostOneRun ==
  \A j \in JobIds :
    /\ runsLaunched[j] = (IF j < nextJobId THEN 1 ELSE 0)
    /\ (j \in DOMAIN run) = (runsLaunched[j] = 1)
    /\ backendCalls[j] <= 1
    /\ runCause[j] # "none" => run[j].pc = "done"

\* A job failed after its one call of the endpoint.
C2_Witness ==
  \E j \in DOMAIN Jobs :
    /\ Jobs[j].status = "failed"
    /\ runCause[j] = "http"
    /\ backendCalls[j] = 1
    /\ runsLaunched[j] = 1

\* C3: when start answers with an error status, the request has inserted no
\* job record and launched no run.
C3_StartErrorCreatesNoJob ==
  lastStart.httpStatus \in {400, 404} =>
    /\ lastStart.insertedJobId = 0
    /\ ~lastStart.launchedRun

\* C4: a run that ended in a failure has left its job, if the job is still in
\* the index, failed with a non-empty error message; and the 202 response of
\* start carries the queued snapshot with no error and no output, whatever
\* the run did afterwards.
RunFailureCauses ==
  {"sourceNotFound", "sourceNotImage", "sourceBytesUnavailable", "readError",
   "endpointNotConfigured", "http", "badSchema", "networkError", "timeout",
   "notPlyPayload", "validation", "diskWrite", "publicUrl"}

C4_RunFailuresRecordedOnJob ==
  \A j \in JobIds :
    /\ (runCause[j] \in RunFailureCauses /\ j \in DOMAIN Jobs) =>
         /\ Jobs[j].status = "failed"
         /\ ~IsNull(Jobs[j].errorMessage)
         /\ Len(TheValue(Jobs[j].errorMessage)) > 0
    /\ j \in DOMAIN startResponse =>
         /\ startResponse[j].status = "queued"
         /\ IsNull(startResponse[j].errorMessage)
         /\ IsNull(startResponse[j].outputArtifactId)

\* A run failed on a disk write after start had answered 202 for its job.
C4_Witness ==
  \E j \in DOMAIN Jobs :
    /\ runCause[j] = "diskWrite"
    /\ Jobs[j].status = "failed"
    /\ j \in DOMAIN startResponse

C6_OutputAndErrorMatchStatus ==
  \A j \in DOMAIN Jobs :
    /\ (~IsNull(Jobs[j].outputArtifactId)) = (Jobs[j].status = "succeeded")
    /\ (~IsNull(Jobs[j].errorMessage)) = (Jobs[j].status = "failed")

\* A succeeded job carrying the id of the artifact its run created.
C6_Witness ==
  \E j \in DOMAIN Jobs :
    /\ Jobs[j].status = "succeeded"
    /\ ~IsNull(Jobs[j].outputArtifactId)
    /\ TheValue(Jobs[j].outputArtifactId) \in outputsOf[j]

\* C7: a get sweeps every job whose expiresAt is at or before the current
\* time before it looks the job up, so it never returns such a job; and a job
\* that was swept is never in the index again, whatever its run does later.
C7_ExpiredJobsNotFound ==
  /\ [][\A k \in JobIds :
          Get(k) =>
            /\ \A j \in DOMAIN Jobs' : Jobs'[j].expiresAtUnixMs > now
            /\ ~IsNull(lastGet'.result) =>
                 /\ k \in DOMAIN Jobs
                 /\ Jobs[k].expiresAtUnixMs > now]_vars
  /\ [](sweptJobs \cap DOMAIN Jobs = {})

\* A job was swept while its run was still going, the run then ended (its
\* update found no record), and a get of the job reported not-found.
C7_Witness ==
  \E j \in sweptJobs :
    /\ run[j].pc = "done"
    /\ statusHistory[j] = <<"queued", "running">>
    /\ lastGet.jobId = j
    /\ IsNull(lastGet.result)

\* C8: once a job in the index is succeeded or failed, no step changes any of
\* its fields other than updatedAtUnixMs, and a get that follows a get of the
\* same terminal job returns the same snapshot.
ObservableFields(r) == [f \in DOMAIN r \ {"updatedAtUnixMs"} |-> r[f]]

ArtifactResolves(artifactIdentifier) ==
  ~IsNull(getArtifactIfAvailable(Store, artifactIdentifier, now).result)
ArtifactBytesValid(artifactIdentifier) ==
  /\ artifactIdentifier \in DOMAIN artifactFiles
  /\ IsNull(validateLikelyGaussianSplatPly(artifactFiles[artifactIdentifier]))

\* C9 as stated: whenever a get returns a succeeded job, its outputArtifactId
\* resolves to a live artifact whose bytes pass the validator, whatever the
\* two times to live are (here even granting that nobody deleted the backing
\* file behind the store's back).
C9_SucceededOutputAlwaysLive ==
  [][\A k \in JobIds :
       (/\ Get(k)
        /\ ~IsNull(lastGet'.result)
        /\ TheValue(lastGet'.result).status = "succeeded"
        /\ TheValue(TheValue(lastGet'.result).outputArtifactId) \notin removedOutOfBand)
         => /\ ArtifactResolves(TheValue(TheValue(lastGet'.result).outputArtifactId))
            /\ ArtifactBytesValid(TheValue(TheValue(lastGet'.result).outputArtifactId))]_vars

\* C9 amended: whenever a get returns a succeeded job, its outputArtifactId
\* names an artifact written by that job's run, and when the job's time to
\* live is not longer than the artifact time to live and the backing file was
\* not deleted behind the store's back, the id resolves to a live artifact
\* whose bytes pass the validator.
C9_SucceededOutputLiveWithinArtifactTtl ==
  [][\A k \in JobIds :
       (/\ Get(k)
        /\ ~IsNull(lastGet'.result)
        /\ TheValue(lastGet'.result).status = "succeeded")
         => LET snapshot == TheValue(lastGet'.result)
                outputArtifactId == TheValue(snapshot.outputArtifactId)
            IN /\ outputArtifactId \in outputsOf[k]
               /\ (/\ snapshot.expiresAtUnixMs - snapshot.createdAtUnixMs <= artifactTtl
                   /\ outputArtifactId \notin removedOutOfBand)
                    => /\ ArtifactResolves(outputArtifactId)
                       /\ ArtifactBytesValid(outputArtifactId)]_vars

\* A get has returned a succeeded job whose time to live equals the artifact
\* time to live, after the clock moved on, and its output resolves.
C9_Witness ==
  \E j \in DOMAIN Jobs :
    /\ lastGet.jobId = j
    /\ ~IsNull(lastGet.result)
    /\ TheValue(lastGet.result).status = "succeeded"
    /\ Jobs[j].expiresAtUnixMs - Jobs[j].createdAtUnixMs = artifactTtl
    /\ now > Jobs[j].updatedAtUnixMs
    /\ ArtifactResolves(TheValue(Jobs[j].outputArtifactId))
    /\ ArtifactBytesValid(TheValue(Jobs[j].outputArtifactId))

\* C10: when the endpoint answered with a non-2xx status or with a body that
\* does not match the schema, the run wrote no output artifact, and the job,
\* if still in the index, is failed with a non-empty error message that, for
\* a non-2xx answer, contains the status code answered.
Contains(message, token) == \E i \in 1..Len(message) : message[i] = token

C10_BackendErrorFailsJob ==
  \A j \in JobIds :
    backendAnswer[j][1] \in {"http", "badSchema"} =>
      /\ outputsOf[j] = {}
      /\ run[j].pc = "done"
      /\ j \in DOMAIN Jobs =>
           /\ Jobs[j].status = "failed"
           /\ ~IsNull(Jobs[j].errorMessage)
           /\ Len(TheValue(Jobs[j].errorMessage)) > 0
           /\ backendAnswer[j][1] = "http" =>
                Contains(TheValue(Jobs[j].errorMessage), backendAnswer[j][2])

\* The endpoint answered HTTP 500 and a get has returned the failed job.
C10_Witness ==
  \E j \in DOMAIN Jobs :
    /\ backendAnswer[j] = <<"http", "500">>
    /\ Jobs[j].status = "failed"
    /\ lastGet.jobId = j
    /\ ~IsNull(lastGet.result)
    /\ TheValue(lastGet.result).status = "failed"

\* Whether a status was ever written into the index for the job.
EverHadStatus(j, status) == \E i \in 1..Len(statusHistory[j]) : statusHistory[j][i] = status

\* C11: when the endpoint answered 2xx with a payload that fails
\* validateLikelyGaussianSplatPly, the run ends without calling
\* createArtifactFromBytes (it wrote no artifact), the job never is succeeded
\* and, if still in the index, is failed with an error message; and every
\* artifact a run did write holds bytes that pass the validator.
C11_InvalidPayloadFailsJob ==
  /\ \A j \in JobIds :
       (/\ backendAnswer[j][1] = "ok"
        /\ ~IsNull(backendPayload[j])
        /\ ~IsNull(validateLikelyGaussianSplatPly(TheValue(backendPayload[j]))))
         => /\ run[j].pc = "done"
            /\ outputsOf[j] = {}
            /\ ~EverHadStatus(j, "succeeded")
            /\ j \in DOMAIN Jobs =>
                 /\ Jobs[j].status = "failed"
                 /\ ~IsNull(Jobs[j].errorMessage)
  /\ \A j \in JobIds : \A a \in outputsOf[j] \cap DOMAIN artifactFiles :
       IsNull(validateLikelyGaussianSplatPly(artifactFiles[a]))

\* The endpoint answered 2xx with a PLY that lacks rot_3; the client accepted
\* it, the validator did not, and a get has returned the failed job.
C11_Witness ==
  \E j \in DOMAIN Jobs :
    /\ backendPayload[j] = Some(PlyMissingRot)
    /\ runCause[j] = "validation"
    /\ Jobs[j].status = "failed"
    /\ lastGet.jobId = j
    /\ ~IsNull(lastGet.result)
    /\ TheValue(lastGet.result).status = "failed"

\* C12: when the timeout timer aborted the request before the endpoint
\* answered, the run has ended after its one request without writing an
\* artifact, the job never is succeeded, whatever answer arrives later, and,
\* if still in the index, it is failed with a non-empty error message.
C12_TimeoutFailsJob ==
  \A j \in JobIds :
    backendAnswer[j][1] = "timeout" =>
      /\ run[j].pc = "done"
      /\ backendCalls[j] = 1
      /\ outputsOf[j] = {}
      /\ ~EverHadStatus(j, "succeeded")
      /\ j \in DOMAIN Jobs =>
           /\ Jobs[j].status = "failed"
           /\ ~IsNull(Jobs[j].errorMessage)
           /\ Len(TheValue(Jobs[j].errorMessage)) > 0

\* The request of a job was aborted by the timer, the endpoint answered
\* afterwards, and a get has since returned the job as failed.
C12_Witness ==
  \E j \in DOMAIN Jobs :
    /\ backendAnswer[j][1] = "timeout"
    /\ lateAnswer[j]
    /\ lastGet.jobId = j
    /\ ~IsNull(lastGet.result)
    /\ TheValue(lastGet.result).status = "failed"

C14_MissingFileIsNotFound ==
  (lastReturn.op \in {"get", "readBytes"} /\ lastReturn.fileMissing) =>
    /\ IsNull(lastReturn.result)
    /\ ~lastReturn.raised
    /\ lastReturn.id \notin DOMAIN artifactRegistryById

\* A get has returned not-found for an artifact whose sidecar is still on
\* disk, after a readBytes had evicted it because its file was gone.
C14_Witness ==
  /\ lastReturn.op = "get"
  /\ lastReturn.fileMissing
  /\ IsNull(lastReturn.result)
  /\ lastReturn.id \in storeLog.evictedByRead
  /\ lastReturn.id \in DOMAIN artifactSidecars

\* The artifact is complete on disk and not expired.
Live(a) ==
  /\ a \in DOMAIN storeLog.created
  /\ storeLog.created[a].expiresAtUnixMs > now
  /\ a \in DOMAIN artifactFiles
  /\ a \in DOMAIN artifactSidecars

\* C15: a get of an artifact that create returned gives back, when it gives
\* back anything, the very record create returned (id, path, mimeType,
\* displayName, size, expiresAt), whether the record comes from the registry
\* as hydrated by initialize() after a restart or from the sidecar on a
\* memory miss; and it does give the record back when the artifact is not
\* expired and its file and sidecar are on disk.
C15_RestartRoundTrip ==
  (lastReturn.op = "get" /\ lastReturn.id \in DOMAIN storeLog.created) =>
    /\ ~IsNull(lastReturn.result) =>
         lastReturn.result = Some(storeLog.created[lastReturn.id])
    /\ Live(lastReturn.id) => ~IsNull(lastReturn.result)

\* After a restart and initialize(), a get has returned an artifact created
\* before the restart, equal to the record create had returned.
C15_Witness ==
  /\ lastReturn.op = "get"
  /\ lastReturn.id \in storeLog.survivedRestart
  /\ booted
  /\ lastReturn.result = Some(storeLog.created[lastReturn.id])

\* C16: when create returns an artifact, its backing file and its sidecar
\* are on disk, and when create throws, no backing file, sidecar or registry
\* record of that identifier is left.
C16_CreateIsAtomic ==
  (lastReturn.op = "create" /\ lastReturn.id \notin removedOutOfBand) =>
    IF lastReturn.raised
      THEN PartsOf(Store, lastReturn.id) = {}
      ELSE {"file", "sidecar"} \subseteq PartsOf(Store, lastReturn.id)

\* C17: every record in the registry has its sidecar and its backing file on
\* disk, in every state, those between the awaits of operations included.
C17_IndexedArtifactsComplete ==
  \A a \in DOMAIN artifactRegistryById :
    /\ a \in DOMAIN artifactFiles
    /\ a \in DOMAIN artifactSidecars

\* C18: when a get or a readBytes finds the backing file of an artifact
\* missing, it leaves neither the registry record nor the sidecar of that
\* artifact behind.
C18_MissingFileHealsAll ==
  lastReturn.evicted =>
    /\ lastReturn.id \notin DOMAIN artifactRegistryById
    /\ lastReturn.id \notin DOMAIN artifactSidecars

\* C19: whatever parts of an artifact existed when delete was called, delete
\* returns without raising and none of the three parts exists afterwards.
C19_DeleteRemovesEverything ==
  lastReturn.op = "delete" =>
    /\ ~lastReturn.raised
    /\ PartsOf(Store, lastReturn.id) = {}

InitializeReconciled ==
  /\ DOMAIN artifactRegistryById =
       {i \in DOMAIN artifactSidecars :
          /\ IsWellFormedMetadata(artifactSidecars[i])
          /\ artifactSidecars[i].expiresAtUnixMs > now
          /\ artifactSidecars[i].absoluteFilePath \in DOMAIN artifactFiles}
  /\ \A i \in DOMAIN artifactSidecars : i \in DOMAIN artifactRegistryById
  /\ \A i \in DOMAIN artifactRegistryById :
       readArtifactMetadataFromDisk(Store, i) = Some(artifactRegistryById[i])
  /\ \A i \in lastReturn.expiredAtStart : PartsOf(Store, i) = {}
  /\ \A i \in lastReturn.unparsableAtStart : i \notin DOMAIN artifactSidecars
  /\ cleanupTimer = 1

C21_InitializeReconciles ==
  [][(lastReturn.op # "initialize" /\ lastReturn'.op = "initialize")
       => InitializeReconciled']_vars

\* initialize() has returned after registering one artifact and removing
\* the sidecar of another that was expired or did not parse.
C21_Witness ==
  /\ lastReturn.op = "initialize"
  /\ DOMAIN artifactRegistryById # {}
  /\ lastReturn.expiredAtStart \cup lastReturn.unparsableAtStart # {}
  /\ cleanupTimer = 1

\* C22: whatever the store does afterwards, the registry record, the sidecar
\* and the backing file of an artifact stay as create returned them
\* (mimeType, displayName, size, backing location, expiresAt), and a get
\* gives that record back; reading does not move expiresAt.
C22_ArtifactsImmutable ==
  \A a \in DOMAIN storeLog.created :
    /\ a \in DOMAIN artifactRegistryById =>
         artifactRegistryById[a] = storeLog.created[a]
    /\ a \in DOMAIN artifactSidecars =>
         readArtifactMetadataFromDisk(Store, a) = Some(storeLog.created[a])
    /\ a \in DOMAIN artifactFiles =>
         byteLength(artifactFiles[a]) = storeLog.created[a].fileSizeBytes
    /\ (lastReturn.op = "get" /\ lastReturn.id = a /\ ~IsNull(lastReturn.result)) =>
         TheValue(lastReturn.result) = storeLog.created[a]

\* A get has returned an artifact some time after its creation, re-read
\* from its sidecar, and the registry holds it with the expiry create gave.
C22_Witness ==
  /\ lastReturn.op = "get"
  /\ ~IsNull(lastReturn.result)
  /\ lastReturn.source = "sidecar"
  /\ lastReturn.id \in DOMAIN artifactRegistryById
  /\ artifactRegistryById[lastReturn.id].expiresAtUnixMs < now + artifactTtl
  /\ artifactRegistryById[lastReturn.id] = storeLog.created[lastReturn.id]

\* C23: a readBytes whose readFile finds the backing file gone, after its
\* get had found it, returns not-found without raising and leaves no record
\* of the artifact in the registry; a readBytes raises only when the file
\* is there and reading it fails.
C23_ReadBytesToleratesDeletion ==
  (lastReturn.op = "readBytes" /\ lastReturn.settledAt = "readFile") =>
    /\ lastReturn.fileMissing =>
         /\ IsNull(lastReturn.result)
         /\ ~lastReturn.raised
         /\ lastReturn.id \notin DOMAIN artifactRegistryById
    /\ lastReturn.raised => ~lastReturn.fileMissing
    /\ (~lastReturn.fileMissing /\ ~lastReturn.raised) => ~IsNull(lastReturn.result)

\* The file went away between the stat and the readFile of a readBytes,
\* which has returned not-found after evicting the record.
C23_Witness ==
  /\ lastReturn.op = "readBytes"
  /\ lastReturn.settledAt = "readFile"
  /\ lastReturn.fileMissing
  /\ lastReturn.evicted
  /\ IsNull(lastReturn.result)
  /\ ~lastReturn.raised

\* --------------------------------------------- what a header declares
\* Line i lies before the first end_header line.
BeforeEndHeader(lines, i) ==
  \A k \in 1..i : ~IsEndHeader(lines[k])

\* Line i declares property f of the vertex element: the latest element
\* line above it names the vertex element.
DeclaresVertexProperty(lines, i, f) ==
  /\ StartsWithKeyword(lines[i], "property")
  /\ lines[i].tokens[Len(lines[i].tokens)] = f
  /\ \E j \in 1..(i - 1) :
       /\ StartsWithKeyword(lines[j], "element")
       /\ lines[j].tokens[2] = "vertex"
       /\ \A k \in (j + 1)..(i - 1) : ~StartsWithKeyword(lines[k], "element")

\* The header declares f among the properties of its vertex element.
DeclaresRequired(lines, f) ==
  \E i \in 1..Len(lines) : BeforeEndHeader(lines, i) /\ DeclaresVertexProperty(lines, i, f)

\* The header declares the encoding binary_little_endian.
DeclaresSupportedFormat(lines) ==
  \E i \in 1..Len(lines) :
    /\ BeforeEndHeader(lines, i)
    /\ StartsWithKeyword(lines[i], "format")
    /\ lines[i].tokens[2] = "binary_little_endian"

\* C24: validate accepts a file only if it begins with 'ply', its header
\* declares the format binary_little_endian and declares each of the eleven
\* required properties under the vertex element, before end_header;
\* a property declared under another element does not count.
C24_AcceptedHeadersAreSplats ==
  (plyOutcome.validated /\ IsNull(plyOutcome.error)) =>
    /\ StartsWithPly(plyHeader)
    /\ DeclaresSupportedFormat(plyHeader)
    /\ \A f \in requiredSplatPropertyNames : DeclaresRequired(plyHeader, f)

\* validate has rejected a header in which a required property is declared
\* only under an element other than vertex, naming that property.
C24_Witness ==
  /\ plyOutcome.validated
  /\ plyOutcome.missing = {"rot_3"}
  /\ \E i \in 1..Len(plyHeader) :
       /\ plyHeader[i] = PropertyLine("rot_3")
       /\ i > 1
       /\ plyHeader[i - 1] = FaceElementLine

\* The header declares the format binary_little_endian and no other, and
\* every required property under its vertex element.
FullHeader(lines) ==
  /\ StartsWithPly(lines)
  /\ DeclaresSupportedFormat(lines)
  /\ \A i \in 1..Len(lines) :
       (BeforeEndHeader(lines, i) /\ StartsWithKeyword(lines[i], "format"))
         => lines[i].tokens[2] = "binary_little_endian"
  /\ \A f \in requiredSplatPropertyNames : DeclaresRequired(lines, f)

\* The header from line i on without the lines that declare property f of
\* the vertex element.
RECURSIVE WithoutDeclarationsFrom(_, _, _)
WithoutDeclarationsFrom(lines, i, f) ==
  IF i > Len(lines) THEN <<>>
  ELSE (IF DeclaresVertexProperty(lines, i, f) THEN <<>> ELSE <<lines[i]>>)
         \o WithoutDeclarationsFrom(lines, i + 1, f)

\* validate accepts the header, and rejects it naming exactly f once the
\* declaration of any required f is taken out.
PassesAndNamesWhatIsRemoved(lines) ==
  /\ IsNull(ValidationOutcome(lines).error)
  /\ \A f \in requiredSplatPropertyNames :
       LET outcome == ValidationOutcome(WithoutDeclarationsFrom(lines, 1, f))
       IN ~IsNull(outcome.error) /\ outcome.missing = {f}

\* C25 as stated: every header that declares the full required set in the
\* supported format passes validate, and without the declaration of a
\* required f it fails with the missing list {f}.
C25_FullHeaderPasses ==
  FullHeader(plyHeader) => PassesAndNamesWhatIsRemoved(plyHeader)

\* C25, amended: the same for a header whose declarations lie in the first
\* MINIMUM_HEADER_SCAN_BYTES bytes of the file, the part validate decodes.
C25_FullHeaderWithinScanPasses ==
  FullHeader(ScannedLines(plyHeader)) => PassesAndNamesWhatIsRemoved(plyHeader)

\* validate has named rot_0, and only it, as missing from a header that is
\* complete but for the declaration of rot_0.
C25_Witness ==
  /\ plyOutcome.validated
  /\ plyOutcome.missing = {"rot_0"}
  /\ ~IsNull(plyOutcome.error)
  /\ \E i \in 1..Len(GoodHeader) :
       /\ GoodHeader[i] = PropertyLine("rot_0")
       /\ plyHeader = SubSeq(GoodHeader, 1, i - 1) \o SubSeq(GoodHeader, i + 1, Len(GoodHeader))

\* The messages of the three Errors validateLikelyGaussianSplatPly throws.
FormatErrors ==
  {validateLikelyGaussianSplatPly(NotPly),
   validateLikelyGaussianSplatPly(PlyAscii),
   validateLikelyGaussianSplatPly(PlyMissingRot)}

\* C26: whatever the bytes, validate either returns or throws one of its
\* format errors, and it does not accept a header that has no end_header
\* line (a file cut short before the end of its header).
C26_TruncatedHeaderRejected ==
  plyOutcome.validated =>
    /\ IsNull(plyOutcome.error) \/ plyOutcome.error \in FormatErrors
    /\ (\A i \in 1..Len(plyHeader) : ~IsEndHeader(plyHeader[i]))
         => ~IsNull(plyOutcome.error)

\* The place of a step in runImageGenerationJob.
StepRank(pc) ==
  CASE pc = "getSource" -> 1
    [] pc = "readBytes" -> 2
    [] pc = "awaitBackend" -> 3
    [] pc = "persist" -> 4
    [] OTHER -> 5

\* The job is succeeded after the step and was not before it.
BecomesSucceeded(j) ==
  /\ j \in DOMAIN imageGenerationJobsById'
  /\ imageGenerationJobsById'[j].status = "succeeded"
  /\ (j \notin DOMAIN imageGenerationJobsById
        \/ imageGenerationJobsById[j].status # "succeeded")

\* C27: a run goes through its steps in order, one at a time or straight to
\* its end: the endpoint is called only by the step that has just read the
\* source bytes, output bytes are written only by the persist step and only
\* bytes that passed validation, and a job becomes succeeded only in a step
\* after which the file and the sidecar of its output artifact are on disk.
C27_RunStepsInOrder ==
  [][\A j \in JobIds :
       /\ (j \in DOMAIN run /\ j \in DOMAIN run') =>
            \/ run'[j].pc = run[j].pc
            \/ StepRank(run'[j].pc) = StepRank(run[j].pc) + 1
            \/ run'[j].pc = "done"
       /\ backendCalls'[j] # backendCalls[j] =>
            /\ j \in DOMAIN run
            /\ run[j].pc = "readBytes"
            /\ ~IsNull(readArtifactBytes(Store, run[j].imageArtifactId, now).result)
       /\ outputsOf'[j] # outputsOf[j] =>
            /\ j \in DOMAIN run
            /\ run[j].pc = "persist"
            /\ ~IsNull(backendPayload[j])
            /\ IsNull(assertLooksLikePlyPayload(TheValue(backendPayload[j])))
            /\ IsNull(validateLikelyGaussianSplatPly(TheValue(backendPayload[j])))
       /\ BecomesSucceeded(j) =>
            /\ j \in DOMAIN run
            /\ run[j].pc = "persist"
            /\ ~IsNull(imageGenerationJobsById'[j].outputArtifactId)
            /\ TheValue(imageGenerationJobsById'[j].outputArtifactId) \in outputsOf'[j]
            /\ TheValue(imageGenerationJobsById'[j].outputArtifactId) \in DOMAIN artifactFiles'
            /\ TheValue(imageGenerationJobsById'[j].outputArtifactId) \in DOMAIN artifactSidecars'
    ]_vars

\* A run has gone through all its steps: one call of the endpoint, one
\* output artifact written, the job succeeded.
C27_Witness ==
  \E j \in DOMAIN Jobs :
    /\ Jobs[j].status = "succeeded"
    /\ backendCalls[j] = 1
    /\ outputsOf[j] # {}
    /\ j \in DOMAIN run
    /\ run[j].pc = "done"

JobRecordFields ==
  {"jobId", "status", "createdAtUnixMs", "updatedAtUnixMs", "expiresAtUnixMs",
   "imageArtifactId", "errorMessage", "outputArtifactId", "outputArtifactUrl"}

StoredArtifactFields ==
  {"artifactId", "absoluteFilePath", "expiresAtUnixMs", "mimeType", "fileSizeBytes",
   "displayName"}

\* A job record that carries the whole of the transition to its status.
WholeJobRecord(r) ==
  /\ DOMAIN r = JobRecordFields
  /\ r.status = "succeeded" =>
       /\ ~IsNull(r.outputArtifactId)
       /\ ~IsNull(r.outputArtifactUrl)
       /\ IsNull(r.errorMessage)
  /\ r.status = "failed" => ~IsNull(r.errorMessage) /\ IsNull(r.outputArtifactId)
  /\ r.status \in {"queued", "running"} =>
       IsNull(r.errorMessage) /\ IsNull(r.outputArtifactId) /\ IsNull(r.outputArtifactUrl)

\* C28: every step leaves in the job index only whole records, each either
\* untouched or replaced by the record of its next status with the fields
\* that identify the job kept; a get returns the record as the index holds
\* it; and every record of the artifact registry is a whole StoredArtifact
\* that no step alters while it is registered.
C28_WholeRecordReplacement ==
  [][/\ \A j \in DOMAIN imageGenerationJobsById' :
          /\ WholeJobRecord(imageGenerationJobsById'[j])
          /\ (j \in DOMAIN imageGenerationJobsById
                /\ imageGenerationJobsById'[j] # imageGenerationJobsById[j]) =>
               /\ imageGenerationJobsById'[j].status # imageGenerationJobsById[j].status
               /\ \A f \in {"jobId", "createdAtUnixMs", "expiresAtUnixMs", "imageArtifactId"} :
                    imageGenerationJobsById'[j][f] = imageGenerationJobsById[j][f]
     /\ (lastGet' # lastGet /\ ~IsNull(lastGet'.result)) =>
          /\ lastGet'.jobId \in DOMAIN imageGenerationJobsById
          /\ lastGet'.result =
               Some(serializeJobForResponse(imageGenerationJobsById[lastGet'.jobId]))
          /\ imageGenerationJobsById'[lastGet'.jobId] = imageGenerationJobsById[lastGet'.jobId]
     /\ \A a \in DOMAIN artifactRegistryById' :
          /\ DOMAIN artifactRegistryById'[a] = StoredArtifactFields
          /\ artifactRegistryById'[a].artifactId = a
          /\ a \in DOMAIN artifactRegistryById =>
               artifactRegistryById'[a] = artifactRegistryById[a]
    ]_vars

\* A get has returned a succeeded job with its output set, as the index
\* holds it, while the run's output artifact is registered.
C28_Witness ==
  /\ ~IsNull(lastGet.result)
  /\ TheValue(lastGet.result).status = "succeeded"
  /\ ~IsNull(TheValue(lastGet.result).outputArtifactId)
  /\ lastGet.jobId \in DOMAIN Jobs
  /\ lastGet.result = Some(serializeJobForResponse(Jobs[lastGet.jobId]))
  /\ TheValue(TheValue(lastGet.result).outputArtifactId) \in DOMAIN artifactRegistryById

\* The expiry recorded for the artifact, in the registry or in its sidecar,
\* is still ahead.
Unexpired(a) == \A e \in KnownExpiry(a) : e > now

\* C29: no step of the job routes (start, get, the steps of a run, the
\* sweep of expired jobs inside them) removes the backing file or the sidecar
\* of an artifact that is not expired, the source and the output artifacts
\* of jobs included; a job that expires leaves its output artifact in place.
C29_JobsNeverDeleteArtifacts ==
  [][jobVars' # jobVars =>
       \A a \in ArtifactIds :
         Unexpired(a) =>
           /\ a \in DOMAIN artifactFiles => a \in DOMAIN artifactFiles'
           /\ a \in DOMAIN artifactSidecars => a \in DOMAIN artifactSidecars'
    ]_vars

\* A job has expired and been swept from the index while the output
\* artifact of its run is still on disk, file and sidecar.
C29_Witness ==
  \E j \in sweptJobs :
    \E a \in outputsOf[j] :
      /\ a \in DOMAIN artifactFiles
      /\ a \in DOMAIN artifactSidecars
      /\ Unexpired(a)

\* The artifact cannot serve as the source of a run now: nothing records
\* it, it is expired, it is not an image, or its backing file is gone.
SourceUnavailable(a) ==
  \/ KnownExpiry(a) = {}
  \/ \E e \in KnownExpiry(a) : e <= now
  \/ a \notin DOMAIN artifactFiles
  \/ a \in DOMAIN artifactRegistryById /\ ~IsImageMimeType(artifactRegistryById[a].mimeType)
  \/ a \in DOMAIN artifactSidecars /\ ~IsImageMimeType(artifactSidecars[a].mimeType)

SourceFailureCauses == {"sourceNotFound", "sourceNotImage", "sourceBytesUnavailable"}

\* C30: a run that comes to fetch its source, the record or the bytes, when
\* the source artifact is missing, expired, not an image or without its
\* file, ends there: the job is marked failed with a message and the
\* endpoint has not been and will not be called for it.
C30_UnavailableSourceFailsJob ==
  [][\A j \in JobIds :
       /\ (/\ j \in DOMAIN run
           /\ run[j].pc \in {"getSource", "readBytes"}
           /\ run'[j] # run[j]
           /\ SourceUnavailable(run[j].imageArtifactId)) =>
            /\ run'[j].pc = "done"
            /\ runCause'[j] \in SourceFailureCauses
            /\ backendCalls'[j] = 0
            /\ j \in DOMAIN imageGenerationJobsById' =>
                 /\ imageGenerationJobsById'[j].status = "failed"
                 /\ ~IsNull(imageGenerationJobsById'[j].errorMessage)
       /\ runCause[j] \in SourceFailureCauses =>
            /\ backendCalls'[j] = 0
            /\ run'[j].pc = "done"
    ]_vars

\* The source artifact expired between the start of the job and the run's
\* fetch of it: the job is failed and the endpoint was never called.
C30_Witness ==
  \E j \in DOMAIN Jobs :
    /\ runCause[j] = "sourceNotFound"
    /\ Jobs[j].status = "failed"
    /\ backendCalls[j] = 0
    /\ Jobs[j].createdAtUnixMs < now

\* C31: the timeout the client resolved is the millisecond setting when that
\* parses to a positive integer, otherwise the seconds setting times 1000
\* (to the nearest millisecond) when that parses to a positive number,
\* otherwise 300000; and it is positive.
C31_TimeoutResolvedAndPositive ==
  LET ms == parseInt(OrEmpty(environment.SHARP_MODAL_TIMEOUT_MS))
      seconds == parseFloat(OrEmpty(environment.SHARP_MODAL_TIMEOUT_SECONDS))
  IN /\ timeoutMilliseconds =
          IF ~IsNull(ms) /\ TheValue(ms).num > 0 THEN TheValue(ms).num
          ELSE IF ~IsNull(seconds) /\ TheValue(seconds).num > 0
            THEN MathRound(TheValue(seconds).num * 1000, TheValue(seconds).den)
          ELSE 300000
     /\ timeoutMilliseconds > 0

\* An upload the route must turn away: an empty file, a file over the size
\* limit of its media category, or a file named as a point cloud whose
\* bytes the validator does not accept.
NamedAsPly(file) == file.nameExtension \in {".ply", ".PLY"}
LimitFor(request) ==
  LET setting == IF NamedAsPly(request.file) THEN request.SPLAT_MAX_PLY_BYTES
                 ELSE request.SPLAT_MAX_IMAGE_BYTES
  IN IF IsNull(setting) THEN (IF NamedAsPly(request.file) THEN 209715200 ELSE 20971520)
     ELSE 500
MustBeRejected(request) ==
  \/ request.file.size = 0
  \/ request.file.size > LimitFor(request)
  \/ NamedAsPly(request.file) /\ ~IsNull(validateLikelyGaussianSplatPly(request.file.bytes))

StoredPlyFilesAreValid ==
  \A a \in DOMAIN artifactFiles :
    (a \in DOMAIN createdWithExtension /\ createdWithExtension[a] = ".ply") =>
      IsNull(validateLikelyGaussianSplatPly(artifactFiles[a]))

\* C32: every file a caller stored with the .ply extension holds bytes the
\* validator accepts, whichever caller stored it; and an upload that is
\* empty, over the limit of its category, or named .ply with bytes the
\* validator rejects is answered with an error and changes nothing in the
\* store.
C32_PlyValidatedBeforeStored ==
  /\ []StoredPlyFilesAreValid
  /\ [][(lastUpload = NoUpload /\ lastUpload' # NoUpload
         /\ MustBeRejected(TheValue(lastUpload'.request))) =>
          /\ lastUpload'.status \in {400, 413}
          /\ IsNull(lastUpload'.artifactId)
          /\ UNCHANGED <<storeVars, nextArtifactId, uploads>>
      ]_vars

\* An uploaded image was accepted and a job stored the endpoint's answer for
\* it as a .ply file.
C32_Witness ==
  /\ \E j \in JobIds : \E a \in outputsOf[j] :
       a \in DOMAIN artifactFiles /\ createdWithExtension[a] = ".ply"
  /\ ~IsNull(lastUpload.request)
  /\ lastUpload.status = 200

\* What a poll reports, read off the answer.
ReportsStatus(answer, status) ==
  /\ answer.settled = "response" /\ answer.ok
  /\ ~IsNull(answer.body) /\ TheValue(answer.body).status = status
ReportsNonTerminal(answer) == ReportsStatus(answer, "queued") \/ ReportsStatus(answer, "running")
TimedOutMessage == Some("Image generation timed out while polling job status.")

PollingBounded ==
  /\ pollsIssued <= 360
  /\ pollState \in {"fetch", "delay"} => pollOutcome = Polling
  /\ (pollState = "settled" /\ pollOutcome.message = TimedOutMessage) =>
       pollsIssued = 360 /\ ReportsNonTerminal(TheValue(lastPollAnswer))

\* C33: the polling loop makes at most 360 fetches; on each answer it
\* returns if the answer reports succeeded, throws if it reports failed, is
\* not OK or has an invalid body, and otherwise goes on; after the 360th
\* non-terminal answer it throws the polling-timeout error; and a loop that
\* has started always settles.
C33_PollingTerminates ==
  /\ []PollingBounded
  /\ [][(pollState = "fetch" /\ pollState' # "fetch") =>
          LET answer == TheValue(lastPollAnswer')
          IN /\ ReportsStatus(answer, "succeeded") <=> pollOutcome'.kind = "returned"
             /\ ReportsNonTerminal(answer) <=> pollState' = "delay"
             /\ ~ReportsNonTerminal(answer) => pollState' = "settled"
             /\ (~ReportsStatus(answer, "succeeded") /\ ~ReportsNonTerminal(answer)) =>
                  pollOutcome'.kind = "threw"
      ]_vars
  /\ [][(pollState = "delay" /\ pollsIssued = 360) =>
          (pollState' = "settled" /\ pollOutcome'.message = TimedOutMessage)]_vars
  /\ (pollState = "fetch") ~> (pollState = "settled")

\* The loop threw the polling-timeout error after its 360th fetch.
C33_Witness ==
  /\ pollState = "settled"
  /\ pollOutcome.message = TimedOutMessage
  /\ pollsIssued = 360
  /\ pollingAttemptIndex = 360

\* C34: no job rests in the index with status queued, so a get answers
\* not-found or a record whose status is running, succeeded or failed; the
\* body of the 202 answer of start carries the status queued.
C34_QueuedNeverObservable ==
  /\ \A j \in DOMAIN Jobs : Jobs[j].status \in {"running", "succeeded", "failed"}
  /\ ~IsNull(lastGet.result) =>
       TheValue(lastGet.result).status \in {"running", "succeeded", "failed"}
  /\ \A j \in DOMAIN startResponse : startResponse[j].status = "queued"

\* A get right after start read the job as running, while the answer of
\* start for the same job said queued.
C34_Witness ==
  \E j \in DOMAIN startResponse :
    /\ startResponse[j].status = "queued"
    /\ lastGet.jobId = j
    /\ ~IsNull(lastGet.result)
    /\ TheValue(lastGet.result).status = "running"
    /\ run[j].pc = "getSource"

\* Every expiry recorded for the artifact: in the registry, in its sidecar,
\* or in the record an operation in flight holds for it.
ExpiryOf(a) ==
  {artifactRegistryById[i].expiresAtUnixMs : i \in {a} \cap DOMAIN artifactRegistryById}
  \cup {artifactSidecars[i].expiresAtUnixMs : i \in {a} \cap DOMAIN artifactSidecars}
  \cup {TheValue(c.stored).expiresAtUnixMs :
          c \in {d \in storeCalls : d.id = a /\ ~IsNull(d.stored)}}

\* The step removes the backing file, the sidecar or the record of a.
LosesPart(a) ==
  \/ a \in DOMAIN artifactFiles /\ a \notin DOMAIN artifactFiles'
  \/ a \in DOMAIN artifactSidecars /\ a \notin DOMAIN artifactSidecars'
  \/ a \in DOMAIN artifactRegistryById /\ a \notin DOMAIN artifactRegistryById'

\* C35: whatever a step of a sweep removes (a backing file, a sidecar, a
\* record of the registry) belongs to an artifact whose expiry is at or
\* before the time the sweep was called, whatever other operation is in
\* flight, a create included.
C35_SweepRemovesOnlyExpired ==
  [][\A c \in storeCalls :
       (c.op = "sweep" /\ c \notin storeCalls') =>
         \A a \in ArtifactIds :
           LosesPart(a) => /\ ExpiryOf(a) # {}
                           /\ \A e \in ExpiryOf(a) : e <= c.calledAt
    ]_vars

\* A sweep has deleted an expired artifact while a create was in progress,
\* its file written and its sidecar not yet: the new file is still there.
C35_Witness ==
  /\ \E c \in storeCalls : c.op = "sweep" /\ c.pc = "rmMetadata" /\ c.id \notin DOMAIN artifactFiles
  /\ \E c \in storeCalls :
       /\ c.op = "create" /\ c.pc = "writeMetadata"
       /\ c.id \in DOMAIN artifactFiles /\ c.id \in DOMAIN artifactRegistryById

\* C36: a job that was marked failed has a run that wrote nothing into the
\* store: no backing file, no sidecar and no record for an output artifact.
C36_FailedJobsStoreNothing ==
  \A j \in JobIds :
    EverHadStatus(j, "failed") => outputsOf[j] = {}

\* C37: a timeout timer that is still armed belongs to the call in flight;
\* once a call of generateSplatFromImage has settled, whether it returned
\* or threw, its timer is no longer pending.
C37_TimerClearedWhenCallSettles ==
  \A n \in pendingTimers : n = modalCall.n /\ modalCall.pc = "fetch"

PlayerInRange ==
  /\ player.positions = 0 => player.currentFrame = 0
  /\ player.positions > 0 => (0 <= player.currentFrame /\ player.currentFrame < player.positions)
  /\ player.state = "playing" => player.positions > 0

\* C38: currentFrame is 0 for an empty trajectory and otherwise within
\* 0 .. totalFrames - 1; the state is playing only with a non-empty
\* trajectory; and an update that moves on from the last frame puts the
\* frame back to 0 and the state to stopped.
C38_PlayerFrameInRange ==
  /\ []PlayerInRange
  /\ [][(/\ lastPlayerCall' = "update"
         /\ player' # player
         /\ player.currentFrame = player.positions - 1) =>
          (player'.currentFrame = 0 /\ player'.state = "stopped")
      ]_vars

\* An update on the last of several frames has just wrapped: frame 0,
\* stopped, at this instant.
C38_Witness ==
  /\ lastPlayerCall = "update"
  /\ player.positions >= 2
  /\ player.currentFrame = 0
  /\ player.state = "stopped"
  /\ player.lastFrameTime = playerClock
  /\ playerClock >= 80

====
